---- MODULE Spec2Model ----
(***************************************************************************)
(* Poll scrapers (Scraper_<Country>_Polls.py) and cleaners                 *)
(* (Data_Clean_<Country>.py) as state machines.                            *)
(*                                                                         *)
(* A text is a sequence of pieces.  A piece is a single character or a     *)
(* whole word without digits; digits are always single-character pieces.   *)
(* A character outside ASCII is written as its code point, "U+2013".       *)
(* The empty text "" is <<>>.  Python's None is None == <<>> and a present *)
(* value x is Some(x) == <<x>>.                                            *)
(***************************************************************************)
EXTENDS Integers, Sequences, FiniteSets, TLC

VARIABLES
    country,               \* which scraper runs
    pc,                    \* position of the run
    err,                   \* the exception that ended the run, "" if none
    tbl,                   \* number of tables of all_tables examined so far
    first_tr,              \* table.find("tr") of the table examined last
    poll_tables,           \* poll_tables / national_tables: indices of the selected tables
    ti,                    \* 1-based position in the loop over the selected tables
    ri,                    \* rows of the current table visited so far
    visited,               \* rows visited over all tables
    tr,                    \* the row visited last
    row_result,            \* what the loop body did with tr
    header,
    n_header,
    date_idx,
    first_header_skipped,
    all_rows,
    filtered_rows,
    file,                  \* content of RAW_OUTPUT (the cleaner's RAW_INPUT) on disk
    df,                    \* the cleaner's data frame
    clean_file,            \* content of CLEAN_OUTPUT on disk
    uk_wide,               \* the dashboard's frame of Uk_polls_clean.csv
    it_wide,               \* the dashboard's frame of Italy_polls_clean.csv
    df_long,               \* the long frame of both countries
    lead_df,               \* the leading party of each country
    polls,                 \* build_wide_table_frames: the latest polls of each country
    cells_df               \* build_wide_table_frames: the cells of the tables

vars == <<country, pc, err, tbl, first_tr, poll_tables, ti, ri, visited, tr,
          row_result, header, n_header, date_idx, first_header_skipped,
          all_rows, filtered_rows, file, df, clean_file,
          uk_wide, it_wide, df_long, lead_df, polls, cells_df>>

\* what a scraper never touches
cleanVars == <<df, clean_file>>

\* what only the dashboard touches
dashVars == <<uk_wide, it_wide, df_long, lead_df, polls, cells_df>>

(***************************************************************************)
(* Bounds                                                                  *)
(***************************************************************************)
MaxTables == 3
MaxRows == 3
MaxWindowRows == 6
MaxCleanRows == 2
MaxPolls == 6
MaxOtherPolls == 1
MaxSelected == 5
MaxTableRows == 2
MaxYearRows == 3
MaxWidePolls == 11
MaxPipeRows == 2
MaxLongPolls == 3
MaxSignRows == 2

(***************************************************************************)
(* Option values and generic helpers                                       *)
(***************************************************************************)
None == <<>>
Some(x) == <<x>>
IsNone(o) == o = <<>>
Get(o) == o[1]

Range(s) == {s[i] : i \in 1..Len(s)}
Min(a, b) == IF a < b THEN a ELSE b

\* Python's `sub in s`
Contains(sub, s) ==
    \E i \in 0..(Len(s) - Len(sub)) : SubSeq(s, i + 1, i + Len(sub)) = sub

\* Python's " ".join(texts)
RECURSIVE Join(_)
Join(texts) ==
    IF texts = <<>> THEN <<>>
    ELSE IF Len(texts) = 1 THEN texts[1]
    ELSE texts[1] \o <<" ">> \o Join(Tail(texts))

(***************************************************************************)
(* Characters: str.isdigit, \d / int()                                     *)
(***************************************************************************)
AsciiDigits == <<"0", "1", "2", "3", "4", "5", "6", "7", "8", "9">>
\* ARABIC-INDIC DIGIT TWO: a decimal digit (category Nd) outside ASCII
ArabicTwo == "U+0662"
\* SUPERSCRIPT TWO: str.isdigit() is True, but it is no decimal digit
SuperscriptTwo == "U+00B2"

IsDecimalChar(c) == c \in Range(AsciiDigits) \/ c = ArabicTwo
IsDigitChar(c) == IsDecimalChar(c) \/ c = SuperscriptTwo
DigitVal(c) ==
    IF c = ArabicTwo THEN 2
    ELSE (CHOOSE i \in 1..10 : AsciiDigits[i] = c) - 1

\* str.isdigit(): non-empty and every character a digit
IsDigitStr(s) == s # <<>> /\ \A i \in 1..Len(s) : IsDigitChar(s[i])
IsDecimalStr(s) == s # <<>> /\ \A i \in 1..Len(s) : IsDecimalChar(s[i])

\* int(s) for a string of decimal digits
RECURSIVE IntOf(_)
IntOf(s) ==
    IF s = <<>> THEN 0
    ELSE 10 * IntOf(SubSeq(s, 1, Len(s) - 1)) + DigitVal(s[Len(s)])

\* re.search(r"(19|20)\d{2}", s): the leftmost match, as int(m.group(0))
YearMatchAt(s, i) ==
    /\ i + 3 <= Len(s)
    /\ <<s[i], s[i + 1]>> \in {<<"1", "9">>, <<"2", "0">>}
    /\ IsDecimalChar(s[i + 2])
    /\ IsDecimalChar(s[i + 3])

YearRegex(s) ==
    IF \E i \in 1..Len(s) : YearMatchAt(s, i)
    THEN LET i == CHOOSE k \in 1..Len(s) :
                     YearMatchAt(s, k) /\ \A j \in 1..(k - 1) : ~YearMatchAt(s, j)
         IN Some(IntOf(SubSeq(s, i, i + 3)))
    ELSE None

(***************************************************************************)
(* Rows and cells.  A row is the sequence of its th/td cells in document   *)
(* order; a cell carries its stripped text, its data-sort-value attribute  *)
(* and the text of a span.sortkey inside it, when present.                 *)
(***************************************************************************)
Cell(tag, text, sort, sortkey) ==
    [tag |-> tag, text |-> text, sort |-> sort, sortkey |-> sortkey]
Th(text) == Cell("th", text, None, None)
Td(text) == Cell("td", text, None, None)

IsTh(c) == c.tag = "th"
IsTd(c) == c.tag = "td"
ThsOf(row) == SelectSeq(row, IsTh)
TdsOf(row) == SelectSeq(row, IsTd)
TextsOf(cells) == [i \in 1..Len(cells) |-> cells[i].text]

(***************************************************************************)
(* Texts of the pages                                                      *)
(***************************************************************************)
FieldworkDate == <<"Fieldwork", " ", "date">>
Lead == <<"Lead">>
Abs == <<"Abs.">>
PollingFirm == <<"Polling", " ", "firm">>
SampleSize == <<"Sample", " ", "size">>
Party == <<"Party">>
Firm == <<"Ipsos">>
Pct == <<"3", "0">>

Date2025 == <<"8", "U+2013", "9", " ", "Dec", " ", "2", "0", "2", "5">>
Date2024 == <<"3", " ", "Jan", " ", "2", "0", "2", "4">>
DateNoYear == <<"9", " ", "Dec">>
Sort2025 == <<"2", "0", "2", "5", "-", "1", "2", "-", "0", "9">>
Sort2024 == <<"2", "0", "2", "4", "-", "0", "1", "-", "0", "3">>
SortArabic == <<"2", "0", "U+0662", "4", "-", "0", "1">>
SortSuperscript == <<"U+00B2", "0", "2", "5", "-", "1", "2">>
SortShort == <<"2", "0", "2">>
SortWords == <<"n", "/", "a", "!", "!">>

\* <td data-sort-value=sort>text</td>
DateTd(text, sort) == Cell("td", text, Some(sort), None)

(***************************************************************************)
(* Table Selector                                                          *)
(***************************************************************************)
Countries == {"Austria", "Germany", "Italy", "Denmark"}

\* header_cells and header_joined of a first row
HeaderCells(first) == TextsOf(ThsOf(first))
HeaderJoined(first) == Join(HeaderCells(first))

AustriaSelectsAnyMarker(first) ==
    \/ Contains(FieldworkDate, HeaderJoined(first))
    \/ Contains(Lead, HeaderJoined(first))

AustriaSelects(first) ==
    /\ Contains(FieldworkDate, HeaderJoined(first))
    /\ Contains(Lead, HeaderJoined(first))

GermanySelects(first) ==
    /\ HeaderCells(first) # <<>>
    /\ Contains(Abs, HeaderJoined(first))

ItalySelects(first) ==
    /\ HeaderCells(first) # <<>>
    /\ Contains(PollingFirm, HeaderJoined(first))
    /\ Contains(FieldworkDate, HeaderJoined(first))
    /\ Contains(SampleSize, HeaderJoined(first))

DenmarkSelects(first) == HeaderCells(first) # <<>>

\* the body of `for table in all_tables`: is the table appended?
IsPollTable(c, ft) ==
    /\ ~IsNone(ft)
    /\ CASE c = "Austria" -> AustriaSelects(Get(ft))
         [] c = "Germany" -> GermanySelects(Get(ft))
         [] c = "Italy" -> ItalySelects(Get(ft))
         [] c = "Denmark" -> DenmarkSelects(Get(ft))

(***************************************************************************)
(* The rows the pages are made of                                          *)
(***************************************************************************)
FirstRowChoices ==
    { <<Th(PollingFirm), Th(FieldworkDate), Th(SampleSize), Th(Lead)>>,
      <<Th(<<"Fieldwork">>), Th(<<"date">>), Th(Lead)>>,
      <<Th(PollingFirm), Th(FieldworkDate), Th(Abs)>>,
      <<Th(Abs), Td(Firm), DateTd(Date2025, Sort2025)>>,
      <<Th(PollingFirm), Th(FieldworkDate)>>,
      <<Th(Lead), Th(Party)>>,
      <<Td(FieldworkDate), Td(Lead), Td(Abs)>>,
      <<>> }

DataRowChoices ==
    { \* date first, date second: a poll row for every scraper, shorter than the header
      <<DateTd(Date2025, Sort2025), DateTd(Date2025, Sort2025)>>,
      \* pollster in a th, date second
      <<Th(Firm), DateTd(Date2024, Sort2024), Td(Pct)>>,
      \* longer than every header
      <<Td(Firm), DateTd(Date2024, Sort2024), Td(Pct), Td(Pct), Td(Pct)>>,
      \* date first only
      <<DateTd(Date2024, SortArabic), Td(Firm), Td(Pct)>>,
      \* a single cell
      <<Td(Firm)>>,
      \* sort attribute, but no visible date text
      <<DateTd(<<>>, Sort2025), DateTd(<<>>, Sort2025)>>,
      \* sort attributes that are no date
      <<DateTd(DateNoYear, SortShort), DateTd(DateNoYear, <<>>)>>,
      <<DateTd(DateNoYear, SortWords), Cell("td", Firm, None, Some(Sort2024))>>,
      <<DateTd(DateNoYear, SortSuperscript), DateTd(DateNoYear, SortSuperscript)>>,
      \* no attribute at all: the year is in the text only
      <<Td(Firm), Td(Date2025), Td(Pct)>>,
      <<Td(Firm), Td(DateNoYear)>> }

RowChoices == FirstRowChoices \cup DataRowChoices

(***************************************************************************)
(* Row Extractor and Row Normalizer: the body of `for tr in rows`          *)
(***************************************************************************)
\* [f"col_{i}" for i in range(n)]
ColNames(n) == [i \in 1..n |-> <<"col_", AsciiDigits[i]>>]

\* header.index("Fieldwork date"), None on ValueError (0-based)
HeaderIndex(h, name) ==
    IF \E i \in 1..Len(h) : h[i] = name
    THEN Some((CHOOSE i \in 1..Len(h) : h[i] = name /\ \A j \in 1..(i - 1) : h[j] # name) - 1)
    ELSE None

PadOnly(cells_text, n) ==
    IF Len(cells_text) < n
    THEN cells_text \o [i \in 1..(n - Len(cells_text)) |-> <<>>]
    ELSE cells_text

\* pad with "" or truncate to n cells
Normalize(cells_text, n) ==
    IF Len(cells_text) < n
    THEN cells_text \o [i \in 1..(n - Len(cells_text)) |-> <<>>]
    ELSE IF Len(cells_text) > n
    THEN SubSeq(cells_text, 1, n)
    ELSE cells_text

\* the values the loop body leaves behind
Outcome(res, e, h, n, d, skipped, rows) ==
    [res |-> res, err |-> e, header |-> h, n_header |-> n, date_idx |-> d,
     first_header_skipped |-> skipped, all_rows |-> rows]
Skip == Outcome("skip", "", header, n_header, date_idx, first_header_skipped, all_rows)
PollRow(year, cells) == [year |-> year, cells |-> cells]

AustriaRowReassigning(row) ==
    LET ths == ThsOf(row)
        tds == TdsOf(row)
    IN
    IF ths # <<>>
    THEN LET h == TextsOf(ths)
         IN Outcome("header", "", Some(h), Some(Len(h)), HeaderIndex(h, FieldworkDate),
                    first_header_skipped, all_rows)
    ELSE IF tds = <<>> THEN Skip
    ELSE IF row = <<>> THEN Skip
    ELSE
    LET cells_text == TextsOf(row)
        idx == IF ~IsNone(date_idx) THEN Get(date_idx) ELSE 1
    IN
    IF idx >= Len(cells_text) THEN Skip
    ELSE IF cells_text[idx + 1] = <<>> THEN Skip
    ELSE
    LET m == YearRegex(cells_text[idx + 1]) IN
    IF IsNone(m) THEN Skip
    ELSE
    LET n == IF IsNone(n_header) THEN Len(cells_text) ELSE Get(n_header)
        h == IF IsNone(n_header) THEN Some(ColNames(n)) ELSE header
    IN Outcome("append", "", h, Some(n), date_idx, first_header_skipped,
               Append(all_rows, PollRow(Get(m), Normalize(cells_text, n))))

AustriaRow(row) ==
    LET ths == ThsOf(row)
        tds == TdsOf(row)
    IN
    IF ths # <<>> /\ IsNone(header)
    THEN LET h == TextsOf(ths)
         IN Outcome("header", "", Some(h), Some(Len(h)), HeaderIndex(h, FieldworkDate),
                    first_header_skipped, all_rows)
    ELSE IF tds = <<>> THEN Skip
    ELSE IF row = <<>> THEN Skip
    ELSE
    LET cells_text == TextsOf(row)
        idx == IF ~IsNone(date_idx) THEN Get(date_idx) ELSE 1
    IN
    IF idx >= Len(cells_text) THEN Skip
    ELSE IF cells_text[idx + 1] = <<>> THEN Skip
    ELSE
    LET m == YearRegex(cells_text[idx + 1]) IN
    IF IsNone(m) THEN Skip
    ELSE
    LET n == IF IsNone(n_header) THEN Len(cells_text) ELSE Get(n_header)
        h == IF IsNone(n_header) THEN Some(ColNames(n)) ELSE header
    IN Outcome("append", "", h, Some(n), date_idx, first_header_skipped,
               Append(all_rows, PollRow(Get(m), Normalize(cells_text, n))))

\* the sort attribute gives no year: `not sort_val or len(sort_val) < 4 or not sort_val[:4].isdigit()`
NoSortYear(sort_val) ==
    \/ IsNone(sort_val)
    \/ Get(sort_val) = <<>>
    \/ Len(Get(sort_val)) < 4
    \/ ~IsDigitStr(SubSeq(Get(sort_val), 1, 4))

GermanyRow(row) ==
    LET ths == ThsOf(row)
        tds == TdsOf(row)
        found == ths # <<>> /\ IsNone(header)
        h1 == IF found THEN Some(TextsOf(ths)) ELSE header
        n1 == IF found THEN Some(Len(TextsOf(ths))) ELSE n_header
        res1 == IF found THEN "header" ELSE "skip"
        Skip1 == Outcome(res1, "", h1, n1, date_idx, first_header_skipped, all_rows)
    IN
    IF tds = <<>> THEN Skip1
    ELSE IF Len(tds) < 2 THEN Skip1
    ELSE
    LET sort_val == tds[2].sort IN
    IF NoSortYear(sort_val) THEN Skip1
    ELSE IF ~IsDecimalStr(SubSeq(Get(sort_val), 1, 4))
    THEN Outcome("raise", "ValueError", h1, n1, date_idx, first_header_skipped, all_rows)
    ELSE
    LET year == IntOf(SubSeq(Get(sort_val), 1, 4))
        cells_text == TextsOf(tds)
        h2 == IF IsNone(h1) THEN Some(ColNames(Len(cells_text))) ELSE h1
        n2 == IF IsNone(h1) THEN Some(Len(cells_text)) ELSE n1
        date_text == IF Len(cells_text) > 1 THEN cells_text[2] ELSE <<>>
    IN
    IF date_text = <<>>
    THEN Outcome(res1, "", h2, n2, date_idx, first_header_skipped, all_rows)
    ELSE Outcome("append", "", h2, n2, date_idx, first_header_skipped,
                 Append(all_rows, PollRow(year, Normalize(cells_text, Get(n2)))))

ItalyRow(row) ==
    LET ths == ThsOf(row)
        tds == TdsOf(row)
    IN
    IF ths # <<>> /\ IsNone(header)
    THEN Outcome("header", "", Some(TextsOf(ths)), Some(Len(TextsOf(ths))), date_idx,
                 first_header_skipped, all_rows)
    ELSE IF tds = <<>> THEN Skip
    ELSE
    LET sort_val == tds[1].sort IN
    IF NoSortYear(sort_val) THEN Skip
    ELSE IF ~IsDecimalStr(SubSeq(Get(sort_val), 1, 4))
    THEN Outcome("raise", "ValueError", header, n_header, date_idx, first_header_skipped, all_rows)
    ELSE IF IsNone(n_header)
    THEN Outcome("raise", "TypeError", header, n_header, date_idx, first_header_skipped, all_rows)
    ELSE Outcome("append", "", header, n_header, date_idx, first_header_skipped,
                 Append(all_rows, PollRow(IntOf(SubSeq(Get(sort_val), 1, 4)),
                                          Normalize(TextsOf(tds), Get(n_header)))))

HasSortValue(c) == ~IsNone(c.sort)
HasSortKey(c) == ~IsNone(c.sortkey)

\* tr.find(attrs={"data-sort-value": True}): the first such cell, None if there is none
FirstSortValueCell(row) ==
    IF \E i \in 1..Len(row) : HasSortValue(row[i])
    THEN Some(row[CHOOSE i \in 1..Len(row) :
                     HasSortValue(row[i]) /\ \A j \in 1..(i - 1) : ~HasSortValue(row[j])])
    ELSE None

\* tr.find("span", class_="sortkey"): the first cell holding one, None if there is none
FirstSortKeyCell(row) ==
    IF \E i \in 1..Len(row) : HasSortKey(row[i])
    THEN Some(row[CHOOSE i \in 1..Len(row) :
                     HasSortKey(row[i]) /\ \A j \in 1..(i - 1) : ~HasSortKey(row[j])])
    ELSE None

ExtractYearFromRow(row, cells_text) ==
    LET el == FirstSortValueCell(row)
        m1 == IF IsNone(el) THEN None ELSE YearRegex(Get(Get(el).sort))
        sk == FirstSortKeyCell(row)
        m2 == IF IsNone(sk) THEN None ELSE YearRegex(Get(Get(sk).sortkey))
        m3 == YearRegex(Join(cells_text))
    IN IF ~IsNone(m1) THEN m1
       ELSE IF ~IsNone(m2) THEN m2
       ELSE m3

DenmarkRow(row) ==
    LET ths == ThsOf(row)
        tds == TdsOf(row)
    IN
    IF ths # <<>> /\ IsNone(header)
    THEN IF ~first_header_skipped
         THEN Outcome("skip", "", header, n_header, date_idx, TRUE, all_rows)
         ELSE Outcome("header", "", Some(TextsOf(row)), Some(Len(row)), date_idx,
                      first_header_skipped, all_rows)
    ELSE IF ths # <<>> /\ tds = <<>> THEN Skip
    ELSE IF row = <<>> THEN Skip
    ELSE
    LET cells_text == TextsOf(row)
        h == IF IsNone(header) THEN Some(ColNames(Len(cells_text))) ELSE header
        n == IF IsNone(header) THEN Some(Len(cells_text)) ELSE n_header
        year == ExtractYearFromRow(row, cells_text)
    IN
    IF IsNone(year)
    THEN Outcome("skip", "", h, n, date_idx, first_header_skipped, all_rows)
    ELSE Outcome("append", "", h, n, date_idx, first_header_skipped,
                 Append(all_rows, PollRow(Get(year), Normalize(cells_text, Get(n)))))

RowStep(c, row) ==
    CASE c = "Austria" -> AustriaRow(row)
      [] c = "Germany" -> GermanyRow(row)
      [] c = "Italy" -> ItalyRow(row)
      [] c = "Denmark" -> DenmarkRow(row)

(***************************************************************************)
(* Year Window Filter and Raw Writer                                       *)
(***************************************************************************)
KeepYears == 5

SetMax(S) == CHOOSE m \in S : \A x \in S : x <= m
SetMin(S) == CHOOSE m \in S : \A x \in S : m <= x

RECURSIVE SortAsc(_)
SortAsc(S) == IF S = {} THEN <<>> ELSE <<SetMin(S)>> \o SortAsc(S \ {SetMin(S)})

\* sorted(S, reverse=True)
RECURSIVE SortDesc(_)
SortDesc(S) == IF S = {} THEN <<>> ELSE <<SetMax(S)>> \o SortDesc(S \ {SetMax(S)})

OldestYearsFound(rows) == SortAsc({rows[i].year : i \in 1..Len(rows)})

\* years_found = sorted({y for y, _ in all_rows}, reverse=True)
YearsFound(rows) == SortDesc({rows[i].year : i \in 1..Len(rows)})

\* keep_years = set(years_found[:5])
KeepSet(rows) ==
    LET years_found == YearsFound(rows)
    IN Range(SubSeq(years_found, 1, Min(KeepYears, Len(years_found))))

\* filtered_rows = [(y, cells) for (y, cells) in all_rows if y in keep_years]
FilterRows ==
    LET keep_years == KeepSet(all_rows)
    IN SelectSeq(all_rows, LAMBDA r : r.year \in keep_years)

\* str(n) of a non-negative integer
RECURSIVE StrOfInt(_)
StrOfInt(n) ==
    IF n < 10 THEN <<AsciiDigits[n + 1]>>
    ELSE StrOfInt(n \div 10) \o <<AsciiDigits[(n % 10) + 1]>>

CsvRecordsBareHeader(h, rows) ==
    <<h>> \o
    [i \in 1..Len(rows) |-> <<StrOfInt(rows[i].year)>> \o rows[i].cells]

\* the records csv.writer is given: ["Year"] + header, then [year] + cells per row
CsvRecords(h, rows) ==
    <<(<<(<<"Year">>)>> \o h)>> \o
    [i \in 1..Len(rows) |-> <<StrOfInt(rows[i].year)>> \o rows[i].cells]

\* a file left by an earlier run
OldCsv == <<(<<(<<"Year">>), (<<"old">>)>>), (<<(<<"1", "9", "9", "9">>), (<<"x">>)>>)>>

(***************************************************************************)
(* The run of a scraper                                                    *)
(***************************************************************************)
\* the tables the row loop goes through
Processed ==
    IF country = "Denmark"
    THEN SubSeq(poll_tables, 1, Min(4, Len(poll_tables)))
    ELSE poll_tables

\* no data frame yet
NoFrame == [cols |-> {}, rows |-> <<>>]

\* build_dashboard has not run
NoDashboard ==
    /\ uk_wide = <<>>
    /\ it_wide = <<>>
    /\ df_long = <<>>
    /\ lead_df = <<>>
    /\ polls = <<>>
    /\ cells_df = {}

Init ==
    /\ country \in Countries
    /\ pc = "fetch"
    /\ err = ""
    /\ tbl = 0
    /\ first_tr = None
    /\ poll_tables = <<>>
    /\ ti = 0
    /\ ri = 0
    /\ visited = 0
    /\ tr = None
    /\ row_result = ""
    /\ header = None
    /\ n_header = None
    /\ date_idx = None
    /\ first_header_skipped = FALSE
    /\ all_rows = <<>>
    /\ filtered_rows = <<>>
    /\ file \in {None, Some(OldCsv)}
    /\ df = NoFrame
    /\ clean_file = None
    /\ NoDashboard

Abort(e) ==
    /\ pc' = "aborted"
    /\ err' = e

\* requests.get raises, or raise_for_status raises on a non-success status
FetchFails ==
    /\ pc = "fetch"
    /\ Abort("SourceUnavailable")
    /\ UNCHANGED <<country, tbl, first_tr, poll_tables, ti, ri, visited, tr, row_result,
                   header, n_header, date_idx, first_header_skipped, all_rows,
                   filtered_rows, file>>
    /\ UNCHANGED cleanVars
    /\ UNCHANGED dashVars

FetchSucceeds ==
    /\ pc = "fetch"
    /\ pc' = "select"
    /\ UNCHANGED <<country, err, tbl, first_tr, poll_tables, ti, ri, visited, tr,
                   row_result, header, n_header, date_idx, first_header_skipped,
                   all_rows, filtered_rows, file>>
    /\ UNCHANGED cleanVars
    /\ UNCHANGED dashVars

\* one pass of `for table in all_tables`
SelectTable ==
    /\ pc = "select"
    /\ tbl < MaxTables
    /\ \E ft \in {None} \cup {Some(r) : r \in FirstRowChoices} :
          /\ first_tr' = ft
          /\ poll_tables' = IF IsPollTable(country, ft)
                            THEN Append(poll_tables, tbl + 1)
                            ELSE poll_tables
    /\ tbl' = tbl + 1
    /\ UNCHANGED <<country, pc, err, ti, ri, visited, tr, row_result, header, n_header,
                   date_idx, first_header_skipped, all_rows, filtered_rows, file>>
    /\ UNCHANGED cleanVars
    /\ UNCHANGED dashVars

\* `if not poll_tables: raise RuntimeError`
NoTablesFound ==
    /\ pc = "select"
    /\ poll_tables = <<>>
    /\ Abort("NoTablesFound")
    /\ UNCHANGED <<country, tbl, first_tr, poll_tables, ti, ri, visited, tr, row_result,
                   header, n_header, date_idx, first_header_skipped, all_rows,
                   filtered_rows, file>>
    /\ UNCHANGED cleanVars
    /\ UNCHANGED dashVars

\* The selection loop is over; its loop variables are dead from here on.
BeginExtract ==
    /\ pc = "select"
    /\ poll_tables # <<>>
    /\ pc' = "extract"
    /\ tbl' = 0
    /\ first_tr' = None
    /\ ti' = 1
    /\ ri' = 0
    /\ UNCHANGED <<country, err, poll_tables, visited, tr, row_result,
                   header, n_header, date_idx, first_header_skipped, all_rows,
                   filtered_rows, file>>
    /\ UNCHANGED cleanVars
    /\ UNCHANGED dashVars

NextRowsAnyFirst == RowChoices

\* The rows a table can show next.  Its first row is the one table.find("tr")
\* gave the Table Selector, so it is a row the selector accepted.
NextRows ==
    IF ri = 0
    THEN {r \in FirstRowChoices : IsPollTable(country, Some(r))}
    ELSE RowChoices

\* one pass of `for tr in rows`
ExtractRow ==
    /\ pc = "extract"
    /\ ti <= Len(Processed)
    /\ visited < MaxRows
    /\ \E row \in NextRows :
          LET o == RowStep(country, row) IN
          /\ tr' = Some(row)
          /\ row_result' = o.res
          /\ header' = o.header
          /\ n_header' = o.n_header
          /\ date_idx' = o.date_idx
          /\ first_header_skipped' = o.first_header_skipped
          /\ all_rows' = o.all_rows
          /\ IF o.res = "raise"
             THEN Abort(o.err)
             ELSE UNCHANGED <<pc, err>>
    /\ ri' = ri + 1
    /\ visited' = visited + 1
    /\ UNCHANGED <<country, tbl, first_tr, poll_tables, ti, filtered_rows, file>>
    /\ UNCHANGED cleanVars
    /\ UNCHANGED dashVars

\* the rows of the table are exhausted
NextTable ==
    /\ pc = "extract"
    /\ ti <= Len(Processed)
    /\ ri >= 1
    /\ ti' = ti + 1
    /\ ri' = 0
    /\ UNCHANGED <<country, pc, err, tbl, first_tr, poll_tables, visited, tr, row_result,
                   header, n_header, date_idx, first_header_skipped, all_rows,
                   filtered_rows, file>>
    /\ UNCHANGED cleanVars
    /\ UNCHANGED dashVars

NoDataRowsTruncating ==
    /\ pc = "extract"
    /\ ti > Len(Processed)
    /\ all_rows = <<>>
    /\ file' = Some(<<>>)
    /\ Abort("NoDataRows")
    /\ UNCHANGED <<country, tbl, first_tr, poll_tables, ti, ri, visited, tr, row_result,
                   header, n_header, date_idx, first_header_skipped, all_rows,
                   filtered_rows>>
    /\ UNCHANGED cleanVars
    /\ UNCHANGED dashVars

\* `if not all_rows: raise RuntimeError`
NoDataRows ==
    /\ pc = "extract"
    /\ ti > Len(Processed)
    /\ all_rows = <<>>
    /\ Abort("NoDataRows")
    /\ UNCHANGED <<country, tbl, first_tr, poll_tables, ti, ri, visited, tr, row_result,
                   header, n_header, date_idx, first_header_skipped, all_rows,
                   filtered_rows, file>>
    /\ UNCHANGED cleanVars
    /\ UNCHANGED dashVars

\* the year window, then open(RAW_OUTPUT, "w") and the writerow calls
FilterAndWrite ==
    /\ pc = "extract"
    /\ ti > Len(Processed)
    /\ all_rows # <<>>
    /\ filtered_rows' = FilterRows
    /\ IF IsNone(header)
       THEN /\ file' = Some(<<>>)
            /\ Abort("TypeError")
       ELSE /\ file' = Some(CsvRecords(Get(header), filtered_rows'))
            /\ pc' = "done"
            /\ UNCHANGED err
    /\ UNCHANGED <<country, tbl, first_tr, poll_tables, ti, ri, visited, tr, row_result,
                   header, n_header, date_idx, first_header_skipped, all_rows>>
    /\ UNCHANGED cleanVars
    /\ UNCHANGED dashVars

Next ==
    \/ FetchFails
    \/ FetchSucceeds
    \/ SelectTable
    \/ NoTablesFound
    \/ BeginExtract
    \/ ExtractRow
    \/ NextTable
    \/ NoDataRows
    \/ FilterAndWrite

Spec == Init /\ [][Next]_vars

(***************************************************************************)
(* The year window on its own.  Lines 106-116 are the same in the four     *)
(* scrapers and read nothing but all_rows and header, so they are run here *)
(* after a row loop that buffers any sequence of rows.                     *)
(***************************************************************************)
WindowYears == {2020, 2021, 2022, 2023, 2024, 2025}

\* a one-cell row that tells its position in the buffer
WindowRow(year, i) == PollRow(year, <<[j \in 1..i |-> "x"]>>)

InitWindow ==
    /\ country = "Austria"
    /\ pc = "extract"
    /\ err = ""
    /\ tbl = 0
    /\ first_tr = None
    /\ poll_tables = <<1>>
    /\ ti = 1
    /\ ri = 1
    /\ visited = 0
    /\ tr = None
    /\ row_result = ""
    /\ header = Some(<<PollingFirm>>)
    /\ n_header = Some(1)
    /\ date_idx = None
    /\ first_header_skipped = FALSE
    /\ all_rows = <<>>
    /\ filtered_rows = <<>>
    /\ file = Some(OldCsv)
    /\ df = NoFrame
    /\ clean_file = None
    /\ NoDashboard

\* all_rows.append((year, cells_text)) for a row of any year
BufferRow ==
    /\ pc = "extract"
    /\ ti <= Len(Processed)
    /\ Len(all_rows) < MaxWindowRows
    /\ \E year \in WindowYears :
          all_rows' = Append(all_rows, WindowRow(year, Len(all_rows) + 1))
    /\ UNCHANGED <<country, pc, err, tbl, first_tr, poll_tables, ti, ri, visited, tr,
                   row_result, header, n_header, date_idx, first_header_skipped,
                   filtered_rows, file>>
    /\ UNCHANGED cleanVars
    /\ UNCHANGED dashVars

NextWindow ==
    \/ BufferRow
    \/ NextTable
    \/ NoDataRows
    \/ FilterAndWrite

SpecWindow == InitWindow /\ [][NextWindow]_vars

(***************************************************************************)
(* The loop over the selected tables on its own: a page with up to         *)
(* MaxSelected selected tables of up to MaxTableRows rows each.            *)
(***************************************************************************)
\* first rows the selectors accept, and the rows that follow them
TableFirstRows ==
    { <<Th(PollingFirm), Th(FieldworkDate), Th(SampleSize), Th(Lead)>>,
      <<Th(PollingFirm), Th(FieldworkDate), Th(Abs)>> }
TableDataRows ==
    { <<DateTd(Date2025, Sort2025), DateTd(Date2025, Sort2025)>>,
      <<Td(Firm)>> }

\* the Table Selector has left 1 to MaxSelected tables in poll_tables
InitTables ==
    /\ country \in Countries
    /\ pc = "extract"
    /\ err = ""
    /\ tbl = 0
    /\ first_tr = None
    /\ poll_tables \in {[i \in 1..n |-> i] : n \in 1..MaxSelected}
    /\ ti = 1
    /\ ri = 0
    /\ visited = 0
    /\ tr = None
    /\ row_result = ""
    /\ header = None
    /\ n_header = None
    /\ date_idx = None
    /\ first_header_skipped = FALSE
    /\ all_rows = <<>>
    /\ filtered_rows = <<>>
    /\ file = None
    /\ df = NoFrame
    /\ clean_file = None
    /\ NoDashboard

\* the body of `for tr in rows` run on row
Visit(row) ==
    LET o == RowStep(country, row) IN
    /\ tr' = Some(row)
    /\ row_result' = o.res
    /\ header' = o.header
    /\ n_header' = o.n_header
    /\ date_idx' = o.date_idx
    /\ first_header_skipped' = o.first_header_skipped
    /\ all_rows' = o.all_rows
    /\ IF o.res = "raise"
       THEN Abort(o.err)
       ELSE UNCHANGED <<pc, err>>
    /\ ri' = ri + 1
    /\ visited' = visited + 1
    /\ UNCHANGED <<country, tbl, first_tr, poll_tables, ti, filtered_rows, file>>
    /\ UNCHANGED cleanVars
    /\ UNCHANGED dashVars

\* one pass of `for tr in rows` in a table of the page
VisitTableRow ==
    /\ pc = "extract"
    /\ ti <= Len(Processed)
    /\ ri < MaxTableRows
    /\ \E row \in (IF ri = 0
                   THEN {r \in TableFirstRows : IsPollTable(country, Some(r))}
                   ELSE TableDataRows) :
          Visit(row)

NextTables ==
    \/ VisitTableRow
    \/ NextTable
    \/ NoDataRows
    \/ FilterAndWrite

SpecTables == InitTables /\ [][NextTables]_vars

(***************************************************************************)
(* The year of a row on its own: one selected table of up to MaxYearRows   *)
(* rows, among them rows whose attributes and texts disagree on the year.  *)
(***************************************************************************)
Sort0999 == <<"0", "9", "9", "9", "-", "1", "2", "-", "0", "1">>
Sample2014 == <<"2", "0", "1", "4">>

YearRows ==
    { \* attribute and text agree
      <<DateTd(Date2025, Sort2025), DateTd(Date2025, Sort2025)>>,
      \* attribute on the second cell only, and another year than the text
      <<Td(Firm), DateTd(Date2025, Sort2024)>>,
      \* attribute on the first cell only
      <<DateTd(Date2024, Sort2024), Td(Firm), Td(Pct)>>,
      \* attribute without a year, a sort key with one
      <<DateTd(DateNoYear, SortWords), Cell("td", Firm, None, Some(Sort2024))>>,
      \* the only year-like text is the sample size
      <<Td(Firm), Td(DateNoYear), Td(Sample2014)>>,
      \* a sort attribute of the year 999
      <<DateTd(DateNoYear, Sort0999), DateTd(DateNoYear, Sort0999)>>,
      \* no year anywhere
      <<Td(Firm), Td(DateNoYear)>>,
      \* the year in the date text only
      <<Td(Firm), Td(Date2025), Td(Pct)>> }

InitYear ==
    /\ country \in Countries
    /\ pc = "extract"
    /\ err = ""
    /\ tbl = 0
    /\ first_tr = None
    /\ poll_tables = <<1>>
    /\ ti = 1
    /\ ri = 0
    /\ visited = 0
    /\ tr = None
    /\ row_result = ""
    /\ header = None
    /\ n_header = None
    /\ date_idx = None
    /\ first_header_skipped = FALSE
    /\ all_rows = <<>>
    /\ filtered_rows = <<>>
    /\ file \in {None, Some(OldCsv)}
    /\ df = NoFrame
    /\ clean_file = None
    /\ NoDashboard

\* one pass of `for tr in rows` in the table
VisitYearRow ==
    /\ pc = "extract"
    /\ ti <= Len(Processed)
    /\ ri < MaxYearRows
    /\ \E row \in (IF ri = 0
                   THEN {r \in TableFirstRows : IsPollTable(country, Some(r))}
                   ELSE TableFirstRows \cup YearRows) :
          Visit(row)

NextYear ==
    \/ VisitYearRow
    \/ NextTable
    \/ NoDataRows
    \/ FilterAndWrite

SpecYear == InitYear /\ [][NextYear]_vars

(***************************************************************************)
(* Field Cleaner: text functions.  The texts of the raw CSV are held       *)
(* character by character.  A number is held as its count of hundredths    *)
(* (12.3 is 1230), which is exact for the cells offered: they have at most *)
(* two decimals.  A date is [y, m, d].  NaN, NaT and <NA> are None.        *)
(***************************************************************************)
LowerLetters == <<"a", "b", "c", "d", "e", "f", "g", "h", "i", "j", "k", "l", "m", "n", "o", "p", "q", "r", "s", "t", "u", "v", "w", "x", "y", "z">>
UpperLetters == <<"A", "B", "C", "D", "E", "F", "G", "H", "I", "J", "K", "L", "M", "N", "O", "P", "Q", "R", "S", "T", "U", "V", "W", "X", "Y", "Z">>
IsAsciiLetter(c) == c \in Range(LowerLetters) \/ c \in Range(UpperLetters)
\* \w of the regex
IsWordChar(c) == IsAsciiLetter(c) \/ IsDecimalChar(c) \/ c = "_"
\* \s of the regex, str.strip()
IsSpace(c) == c = " "
\* str.lower() of one character
Lower(c) ==
    IF c \in Range(UpperLetters)
    THEN LowerLetters[CHOOSE i \in 1..26 : UpperLetters[i] = c]
    ELSE c

RECURSIVE LStrip(_)
LStrip(s) == IF s # <<>> /\ IsSpace(s[1]) THEN LStrip(Tail(s)) ELSE s
RECURSIVE RStrip(_)
RStrip(s) ==
    IF s # <<>> /\ IsSpace(s[Len(s)]) THEN RStrip(SubSeq(s, 1, Len(s) - 1)) ELSE s
\* str.strip()
Strip(s) == RStrip(LStrip(s))

\* Python's s[-a:] (b = 0) and s[-a:-b]
SliceFromEnd(s, a, b) ==
    LET start == IF Len(s) > a THEN Len(s) - a ELSE 0
        stop == IF Len(s) > b THEN Len(s) - b ELSE 0
    IN SubSeq(s, start + 1, stop)

\* the month abbreviations %b knows, lower case, and their lengths in days
MonthAbbr ==
    <<<<"j", "a", "n">>,
      <<"f", "e", "b">>,
      <<"m", "a", "r">>,
      <<"a", "p", "r">>,
      <<"m", "a", "y">>,
      <<"j", "u", "n">>,
      <<"j", "u", "l">>,
      <<"a", "u", "g">>,
      <<"s", "e", "p">>,
      <<"o", "c", "t">>,
      <<"n", "o", "v">>,
      <<"d", "e", "c">>>>
DaysInMonth(y, m) ==
    IF m = 2
    THEN (IF (y % 4 = 0 /\ y % 100 # 0) \/ y % 400 = 0 THEN 29 ELSE 28)
    ELSE IF m \in {4, 6, 9, 11} THEN 30 ELSE 31

\* %d at the head of s: 3[0-1] | [1-2]\d | 0[1-9] | [1-9] | " "[1-9]; the number of
\* characters it takes, 0 if it does not match
DayWidth(s) ==
    IF /\ Len(s) >= 2
       /\ \/ s[1] = "3" /\ s[2] \in {"0", "1"}
          \/ s[1] \in {"1", "2"} /\ IsDecimalChar(s[2])
          \/ s[1] \in {"0", " "} /\ IsDecimalChar(s[2]) /\ DigitVal(s[2]) >= 1
    THEN 2
    ELSE IF s # <<>> /\ IsDecimalChar(s[1]) /\ DigitVal(s[1]) >= 1 THEN 1
    ELSE 0

\* datetime parsing with format "%d %b %Y": the whole text must match, the
\* blanks of the format match \s+, and the day must exist; None when it fails
ParseDate(s) ==
    LET w == DayWidth(s)
        day == IF w = 2 /\ s[1] = " " THEN DigitVal(s[2]) ELSE IntOf(SubSeq(s, 1, w))
        rest1 == SubSeq(s, w + 1, Len(s))
        afterDay == LStrip(rest1)
        mon == [i \in 1..3 |-> Lower(afterDay[i])]
        rest2 == SubSeq(afterDay, 4, Len(afterDay))
        afterMon == LStrip(rest2)
    IN
    IF w = 0 THEN None
    ELSE IF afterDay = rest1 \/ Len(afterDay) < 3 THEN None
    ELSE IF ~\E k \in 1..12 : MonthAbbr[k] = mon THEN None
    ELSE IF afterMon = rest2 \/ Len(afterMon) # 4 \/ ~IsDecimalStr(afterMon) THEN None
    ELSE
    LET m == CHOOSE k \in 1..12 : MonthAbbr[k] = mon
        y == IntOf(afterMon)
    IN IF day <= DaysInMonth(y, m) THEN Some([y |-> y, m |-> m, d |-> day]) ELSE None

\* \b(\d{1,2}\s+[A-Za-z]{3})\b tried at position i of s: the position of the
\* last character of the match, 0 if there is none
TokenEnd(s, i) ==
    LET n == Len(s)
        two == i + 1 <= n /\ IsDecimalChar(s[i + 1])
        j == IF two THEN i + 2 ELSE i + 1
        rest == SubSeq(s, j, n)
        k == j + (Len(rest) - Len(LStrip(rest)))
    IN
    IF /\ IsDecimalChar(s[i])
       /\ i = 1 \/ ~IsWordChar(s[i - 1])
       /\ k > j
       /\ k + 2 <= n
       /\ \A q \in k..(k + 2) : IsAsciiLetter(s[q])
       /\ k + 2 = n \/ ~IsWordChar(s[k + 3])
    THEN k + 2
    ELSE 0

\* re.findall scanning from position i, with `last` the match found so far
RECURSIVE LastToken(_, _, _)
LastToken(s, i, last) ==
    IF i > Len(s) THEN last
    ELSE IF TokenEnd(s, i) > 0
    THEN LastToken(s, TokenEnd(s, i) + 1, SubSeq(s, i, TokenEnd(s, i)))
    ELSE LastToken(s, i + 1, last)

\* extract_day_month: "" for NaN, else the last match or ""
ExtractDayMonth(s) == IF s = <<>> THEN <<>> ELSE LastToken(Strip(s), 1, <<>>)

\* the characters .replace(..., regex=True) deletes
RemovedChars(c) ==
    IF c = "Austria"
    THEN {",", "%", "U+2013", "U+2212", "?"}
    ELSE {",", "%", "U+2013", "U+2212"}

RECURSIVE RemoveChars(_, _)
RemoveChars(s, gone) ==
    IF s = <<>> THEN <<>>
    ELSE IF s[1] \in gone THEN RemoveChars(Tail(s), gone)
    ELSE <<s[1]>> \o RemoveChars(Tail(s), gone)

\* pd.to_numeric(errors="coerce") of a text: [sign] digits [. digits], in hundredths
ParseFloat(s) ==
    LET signed == s # <<>> /\ s[1] \in {"-", "+"}
        body == IF signed THEN Tail(s) ELSE s
        dot == IF \E i \in 1..Len(body) : body[i] = "."
               THEN CHOOSE i \in 1..Len(body) : body[i] = "." /\ \A j \in 1..(i - 1) : body[j] # "."
               ELSE Len(body) + 1
        ip == SubSeq(body, 1, dot - 1)
        fp == SubSeq(body, dot + 1, Len(body))
        fp2 == SubSeq(fp \o <<"0", "0">>, 1, 2)
        mag == 100 * IntOf(ip) + IntOf(fp2)
    IN
    IF /\ ip \o fp # <<>>
       /\ \A i \in 1..Len(ip) : ip[i] \in Range(AsciiDigits)
       /\ \A i \in 1..Len(fp) : fp[i] \in Range(AsciiDigits)
    THEN Some(IF signed /\ s[1] = "-" THEN 0 - mag ELSE mag)
    ELSE None

\* a cell of a numeric column after clean_numeric's replace, strip and to_numeric
Coerce(c, cell) ==
    IF cell = <<>> THEN None
    ELSE ParseFloat(Strip(RemoveChars(cell, RemovedChars(c))))

\* Series.round(0): half to even
RoundHalfEven(v) ==
    LET q == v \div 100
        r == v % 100
    IN IF r < 50 THEN 100 * q
       ELSE IF r > 50 THEN 100 * (q + 1)
       ELSE IF q % 2 = 0 THEN 100 * q ELSE 100 * (q + 1)

\* read_csv gives a column the object dtype, which .str needs, when it has no
\* rows or some cell is neither empty nor a number
IsTextColumn(cells) ==
    \/ cells = <<>>
    \/ \E i \in 1..Len(cells) : cells[i] # <<>> /\ IsNone(ParseFloat(Strip(cells[i])))

(***************************************************************************)
(* Field Cleaner: the raw CSV and data_cleaner()                           *)
(***************************************************************************)
CleanCountries == Countries \cup {"UK"}

Year == <<"Year">>
FirmCol(c) == IF c = "UK" THEN <<"Pollster">> ELSE PollingFirm
DateCol(c) == IF c = "UK" THEN <<"Date(s) conducted">> ELSE FieldworkDate
\* one of the party columns of Num_cols
PartyCol(c) ==
    CASE c = "Austria" -> <<"NEOS">>
      [] c = "Denmark" -> <<"A">>
      [] c = "Germany" -> <<"SPD">>
      [] c = "Italy" -> <<"PD">>
      [] c = "UK" -> <<"Lab">>
\* the columns data_cleaner drops without errors="ignore"
ExtraCols(c) ==
    CASE c = "Italy" -> <<(<<"Others">>)>>
      [] c = "UK" -> <<(<<"Client">>), (<<"Area">>)>>
      [] OTHER -> <<>>

\* header records of the raw CSV: complete, without the party column, without "Sample size"
RawHeaders(c) ==
    { <<Year, FirmCol(c), DateCol(c), SampleSize, PartyCol(c)>> \o ExtraCols(c),
      <<Year, FirmCol(c), DateCol(c), SampleSize>> \o ExtraCols(c),
      <<Year, FirmCol(c), DateCol(c), PartyCol(c)>> \o ExtraCols(c) }

DateRange == <<"9", "U+2013", "1", "1", " ", "D", "e", "c">>
DateRangeYear == <<"9", "U+2013", "1", "1", " ", "D", "e", "c", " ", "2", "0", "2", "5">>
DateSingle == <<"1", "1", " ", "D", "e", "c">>
DateMonthOnly == <<"D", "e", "c", " ", "2", "0", "2", "5">>
FirmPlain == <<"I", "p", "s", "o", "s">>
FirmCited == <<"I", "p", "s", "o", "s", "[", "1", "]">>
NumPercent == <<"1", "2", ".", "3", "%">>
NumThousands == <<"1", ",", "2", "3", "4">>
NumDash == <<"U+2013">>
NumPlain == <<"1", "0", "0", "0">>

RawDates == {DateRange, DateRangeYear, DateSingle, DateMonthOnly, <<>>}
RawNumbers == {NumPercent, NumThousands, NumDash, NumPlain}

\* the record of a poll under header h: the same number text in every numeric column
RawRecordOf(h, c, date, num) ==
    [i \in 1..Len(h) |->
        CASE h[i] = Year -> <<"2", "0", "2", "5">>
          [] h[i] = FirmCol(c) -> (IF date = DateRange THEN FirmCited ELSE FirmPlain)
          [] h[i] = DateCol(c) -> date
          [] h[i] \in {SampleSize, PartyCol(c)} -> num
          [] OTHER -> <<"x">>]

HasCol(h, name) == \E i \in 1..Len(h) : h[i] = name
\* rec[name]
Field(h, rec, name) == rec[Get(HeaderIndex(h, name)) + 1]
\* df[name] of the frame read from csv
Column(csv, name) == [i \in 1..(Len(csv) - 1) |-> Field(csv[1], csv[i + 1], name)]

\* the text before the first occurrence of a character
PrefixBefore(s, ch) ==
    IF \E i \in 1..Len(s) : s[i] = ch
    THEN SubSeq(s, 1, (CHOOSE i \in 1..Len(s) : s[i] = ch /\ \A j \in 1..(i - 1) : s[j] # ch) - 1)
    ELSE s

\* the Pollster cell
PollsterOf(c, firm) ==
    CASE c = "Austria" -> Strip(PrefixBefore(IF firm = <<>> THEN <<"n", "a", "n">> ELSE firm, "("))
      [] c = "Denmark" -> Strip(PrefixBefore(IF firm = <<>> THEN <<"n", "a", "n">> ELSE firm, "["))
      [] c \in {"Germany", "UK"} -> Strip(PrefixBefore(firm, "["))
      [] c = "Italy" -> firm

\* df["Year"].astype(str)
YearStr(cell) == StrOfInt(IntOf(cell))

\* the text handed to pd.to_datetime, None when it is NaN
DateText(c, cell, year) ==
    CASE c \in {"Austria", "Denmark"} -> Some(ExtractDayMonth(cell) \o <<" ">> \o YearStr(year))
      [] c = "Germany" ->
            IF cell = <<>> THEN None
            ELSE Some(SliceFromEnd(cell, 11, 5) \o <<" ">> \o YearStr(year))
      [] c \in {"Italy", "UK"} ->
            IF cell = <<>> THEN None
            ELSE Some(SliceFromEnd(cell, 6, 0) \o <<" ">> \o YearStr(year))

\* Date_conducted, NaT as None
DateOf(c, cell, year) ==
    IF IsNone(DateText(c, cell, year)) THEN None
    ELSE ParseDate(Get(DateText(c, cell, year)))

\* the Sample_size cell
SampleOf(c, cell) ==
    IF c \in {"Austria", "Denmark", "Germany"} /\ ~IsNone(Coerce(c, cell))
    THEN Some(RoundHalfEven(Get(Coerce(c, cell))))
    ELSE Coerce(c, cell)

\* the row of the frame for record i of the raw CSV
CleanRow(c, csv, i) ==
    LET h == csv[1]
        rec == csv[i + 1]
    IN [idx |-> i,
        date |-> DateOf(c, Field(h, rec, DateCol(c)), Field(h, rec, Year)),
        pollster |-> PollsterOf(c, Field(h, rec, FirmCol(c))),
        sample |-> IF HasCol(h, SampleSize) THEN SampleOf(c, Field(h, rec, SampleSize)) ELSE None,
        party |-> IF HasCol(h, PartyCol(c)) THEN Coerce(c, Field(h, rec, PartyCol(c))) ELSE None]

HasDate(r) == ~IsNone(r.date)
HasSample(r) == ~IsNone(r.sample)

\* the frame after clean_numeric; the Denmark cleaner has dropped the NaT rows by then
FrameOf(c, csv) ==
    LET all == [i \in 1..(Len(csv) - 1) |-> CleanRow(c, csv, i)]
        kept == Range(csv[1]) \ ({Year, FirmCol(c), DateCol(c), SampleSize} \cup Range(ExtraCols(c)))
    IN [cols |-> kept \cup {<<"Date_conducted">>, <<"Pollster">>}
                      \cup (IF HasCol(csv[1], SampleSize) THEN {<<"Sample_size">>} ELSE {}),
        rows |-> IF c = "Denmark" THEN SelectSeq(all, HasDate) ELSE all]

\* what to_csv writes; the Austria cleaner keeps the rows with a sample size
WrittenOf(c, frame) ==
    [cols |-> frame.cols,
     rows |-> IF c = "Austria" THEN SelectSeq(frame.rows, HasSample) ELSE frame.rows]

\* the exception data_cleaner raises on csv, "" if it raises none
CleanError(c, csv) ==
    LET h == csv[1]
        n == Len(csv) - 1
        dates == Column(csv, DateCol(c))
        years == Column(csv, Year)
        numbers == (IF HasCol(h, SampleSize) THEN Column(csv, SampleSize) ELSE <<>>)
                   \o (IF HasCol(h, PartyCol(c)) THEN Column(csv, PartyCol(c)) ELSE <<>>)
    IN
    IF c \in {"Germany", "UK"} /\ ~IsTextColumn(Column(csv, FirmCol(c)))
    THEN "AttributeError"
    ELSE IF c \in {"Germany", "Italy", "UK"} /\ ~IsTextColumn(dates)
    THEN "AttributeError"
    ELSE IF c = "UK" /\ \E i \in 1..n :
                           dates[i] # <<>> /\ IsNone(DateOf(c, dates[i], years[i]))
    THEN "ValueError"
    ELSE IF c \in {"Germany", "Italy", "UK"} /\ ~(HasCol(h, SampleSize) /\ HasCol(h, PartyCol(c)))
    THEN "KeyError"
    ELSE IF c = "UK" /\ \E i \in 1..Len(numbers) :
                           ~IsNone(Coerce(c, numbers[i])) /\ Get(Coerce(c, numbers[i])) % 100 # 0
    THEN "TypeError"
    ELSE IF c = "Austria" /\ ~HasCol(h, SampleSize)
    THEN "KeyError"
    ELSE ""

scrapeVars == <<tbl, first_tr, poll_tables, ti, ri, visited, tr, row_result, header,
                n_header, date_idx, first_header_skipped, all_rows, filtered_rows>>

\* CLEAN_OUTPUT as an earlier run left it
OldClean ==
    [cols |-> {<<"Pollster">>},
     rows |-> <<[idx |-> 0, date |-> None, pollster |-> <<"o", "l", "d">>,
                 sample |-> None, party |-> None]>>]

\* a raw CSV is on disk and the cleaner of its country is about to run
InitClean ==
    /\ country \in CleanCountries
    /\ pc = "raw"
    /\ err = ""
    /\ tbl = 0
    /\ first_tr = None
    /\ poll_tables = <<>>
    /\ ti = 0
    /\ ri = 0
    /\ visited = 0
    /\ tr = None
    /\ row_result = ""
    /\ header = None
    /\ n_header = None
    /\ date_idx = None
    /\ first_header_skipped = FALSE
    /\ all_rows = <<>>
    /\ filtered_rows = <<>>
    /\ \E h \in RawHeaders(country) : file = Some(<<h>>)
    /\ df = NoFrame
    /\ clean_file = Some(OldClean)
    /\ NoDashboard

\* one more record in the raw CSV: writer.writerow([year] + cells)
RawRecord ==
    /\ pc = "raw"
    /\ Len(Get(file)) - 1 < MaxCleanRows
    /\ \E date \in RawDates, num \in RawNumbers :
          file' = Some(Append(Get(file), RawRecordOf(Get(file)[1], country, date, num)))
    /\ UNCHANGED <<country, pc, err, df, clean_file>>
    /\ UNCHANGED scrapeVars
    /\ UNCHANGED dashVars

\* data_cleaner() runs to the end
DataCleanerCompletes ==
    /\ pc = "raw"
    /\ CleanError(country, Get(file)) = ""
    /\ df' = FrameOf(country, Get(file))
    /\ clean_file' = Some(WrittenOf(country, df'))
    /\ pc' = "cleaned"
    /\ UNCHANGED <<country, err, file>>
    /\ UNCHANGED scrapeVars
    /\ UNCHANGED dashVars

\* data_cleaner() raises before to_csv
DataCleanerRaises ==
    /\ pc = "raw"
    /\ CleanError(country, Get(file)) # ""
    /\ pc' = "clean_aborted"
    /\ err' = CleanError(country, Get(file))
    /\ UNCHANGED <<country, file, df, clean_file>>
    /\ UNCHANGED scrapeVars
    /\ UNCHANGED dashVars

NextClean ==
    \/ RawRecord
    \/ DataCleanerCompletes
    \/ DataCleanerRaises

SpecClean == InitClean /\ [][NextClean]_vars

(***************************************************************************)
(* The cleaners on numeric cells with a sign: a raw CSV of up to           *)
(* MaxSignRows records whose numeric cells are texts with a minus sign,    *)
(* with a hyphen, without sign, or a lone dash.                            *)
(***************************************************************************)
NumMinus == <<"U+2212", "5">>
NumHyphen == <<"-", "5">>
SignedNumbers == {NumMinus, NumHyphen, NumPlain, NumDash}

\* one more record in the raw CSV: writer.writerow([year] + cells)
RawSignedRecord ==
    /\ pc = "raw"
    /\ Len(Get(file)) - 1 < MaxSignRows
    /\ \E num \in SignedNumbers :
          file' = Some(Append(Get(file), RawRecordOf(Get(file)[1], country, DateSingle, num)))
    /\ UNCHANGED <<country, pc, err, df, clean_file>>
    /\ UNCHANGED scrapeVars
    /\ UNCHANGED dashVars

NextSign ==
    \/ RawSignedRecord
    \/ DataCleanerCompletes
    \/ DataCleanerRaises

SpecSign == InitClean /\ [][NextSign]_vars

(***************************************************************************)
(* Austria, scraper then cleaner: the rows of one selected table are       *)
(* extracted and written, and data_cleaner() reads the file written.  The  *)
(* cell texts are written character by character, as the cleaner reads     *)
(* them.                                                                   *)
(***************************************************************************)
RangeAcrossYears ==
    <<"2", "8", " ", "D", "e", "c", " ", "2", "0", "2", "4", " ", "U+2013", " ",
      "3", " ", "J", "a", "n", " ", "2", "0", "2", "5">>
RangeWithinYear ==
    <<"3", "0", " ", "N", "o", "v", " ", "2", "0", "2", "5", " ", "U+2013", " ",
      "9", " ", "D", "e", "c", " ", "2", "0", "2", "5">>

FieldworkTexts == {RangeAcrossYears, RangeWithinYear, DateRangeYear, DateRange}

\* the first rows of the table: with the sample size column and without it
AustriaHeaderRows ==
    { <<Th(PollingFirm), Th(FieldworkDate), Th(SampleSize), Th(Lead)>>,
      <<Th(PollingFirm), Th(FieldworkDate), Th(Lead)>> }

\* the data rows of the table: pollster, fieldwork, sample size, lead
AustriaDataRows ==
    { <<Td(FirmPlain), Td(date), Td(sample), Td(NumPercent)>> :
         date \in FieldworkTexts, sample \in {NumPlain, NumDash} }

InitPipeline ==
    /\ country = "Austria"
    /\ pc = "extract"
    /\ err = ""
    /\ tbl = 0
    /\ first_tr = None
    /\ poll_tables = <<1>>
    /\ ti = 1
    /\ ri = 0
    /\ visited = 0
    /\ tr = None
    /\ row_result = ""
    /\ header = None
    /\ n_header = None
    /\ date_idx = None
    /\ first_header_skipped = FALSE
    /\ all_rows = <<>>
    /\ filtered_rows = <<>>
    /\ file = None
    /\ df = NoFrame
    /\ clean_file = None
    /\ NoDashboard

\* one pass of `for tr in rows`: the header row, then the data rows
VisitAustriaRow ==
    /\ pc = "extract"
    /\ ti <= Len(Processed)
    /\ ri <= MaxPipeRows
    /\ \E row \in (IF ri = 0 THEN AustriaHeaderRows ELSE AustriaDataRows) :
          Visit(row)

\* Data_Clean_Austria is started on the file the scraper has written
StartCleaner ==
    /\ pc = "done"
    /\ pc' = "raw"
    /\ UNCHANGED <<country, err, file, df, clean_file>>
    /\ UNCHANGED scrapeVars
    /\ UNCHANGED dashVars

NextPipeline ==
    \/ VisitAustriaRow
    \/ NextTable
    \/ NoDataRows
    \/ FilterAndWrite
    \/ StartCleaner
    \/ DataCleanerCompletes
    \/ DataCleanerRaises

SpecPipeline == InitPipeline /\ [][NextPipeline]_vars

(***************************************************************************)
(* Second runs.  A scraper keeps nothing between runs: header, n_header    *)
(* and all_rows are locals set anew at lines 39-42 and filled from the     *)
(* page alone, so a second run on the same page comes to the write with    *)
(* the header and all_rows of the first.  A cleaner reads RAW_INPUT anew.  *)
(***************************************************************************)
ScraperRerunAppending ==
    /\ pc = "done"
    /\ filtered_rows' = FilterRows
    /\ file' = Some(Get(file) \o CsvRecords(Get(header), filtered_rows'))
    /\ pc' = "done_again"
    /\ UNCHANGED <<country, err, tbl, first_tr, poll_tables, ti, ri, visited, tr, row_result,
                   header, n_header, date_idx, first_header_skipped, all_rows>>
    /\ UNCHANGED cleanVars
    /\ UNCHANGED dashVars

\* the scraper runs again on the page of the first run
ScraperRerun ==
    /\ pc = "done"
    /\ filtered_rows' = FilterRows
    /\ file' = Some(CsvRecords(Get(header), filtered_rows'))
    /\ pc' = "done_again"
    /\ UNCHANGED <<country, err, tbl, first_tr, poll_tables, ti, ri, visited, tr, row_result,
                   header, n_header, date_idx, first_header_skipped, all_rows>>
    /\ UNCHANGED cleanVars
    /\ UNCHANGED dashVars

\* data_cleaner() runs again on the raw CSV of the first run
CleanerRerun ==
    /\ pc = "cleaned"
    /\ df' = FrameOf(country, Get(file))
    /\ clean_file' = Some(WrittenOf(country, df'))
    /\ pc' = "cleaned_again"
    /\ UNCHANGED <<country, err, file>>
    /\ UNCHANGED scrapeVars
    /\ UNCHANGED dashVars

InitRerun == InitYear \/ InitClean

NextRerun ==
    \/ NextYear
    \/ ScraperRerun
    \/ NextClean
    \/ CleanerRerun

SpecRerun == InitRerun /\ [][NextRerun]_vars

(***************************************************************************)
(* Dashboard: to_long_format and compute_leading_by_country_long.  A wide  *)
(* frame is the sequence of the polls of a cleaned CSV; a date is a day    *)
(* number, NaT is None; a party value is a number of percent, NaN is None. *)
(***************************************************************************)
UK_PARTIES == <<"Lab", "Con">>
IT_PARTIES == <<"PD">>
\* the parties in the order groupby sorts them
SortedParties == <<"Con", "Lab", "PD">>
PartyRank(p) == CHOOSE i \in 1..Len(SortedParties) : SortedParties[i] = p

LeadWindow == 10

WidePoll(date, pollster, vals) == [date |-> date, pollster |-> pollster, vals |-> vals]

\* the polls a cleaned CSV can hold next: days after the poll before it, and its cells
UkPollChoices ==
    { [step |-> 1, vals |-> [Lab |-> Some(30), Con |-> Some(20)]],
      [step |-> 1, vals |-> [Lab |-> Some(10), Con |-> Some(90)]],
      [step |-> 0, vals |-> [Lab |-> Some(30), Con |-> None]] }
ItPollChoices == { [step |-> 1, vals |-> [PD |-> Some(25)]] }

LastDate(wide) == IF wide = <<>> THEN 0 ELSE Get(wide[Len(wide)].date)

LongRow(country_name, id_str, poll_id, poll, party) ==
    [country_name |-> country_name, id_str |-> id_str, poll_id |-> poll_id,
     date |-> Get(poll.date), pollster |-> poll.pollster,
     party |-> party, value |-> poll.vals[party]]

HasValue(r) == ~IsNone(r.value)

\* d.melt(value_vars=party_cols): all polls for the first party, then for the next
RECURSIVE Melt(_, _, _, _)
Melt(d, country_name, id_str, party_cols) ==
    IF party_cols = <<>> THEN <<>>
    ELSE [i \in 1..Len(d) |-> LongRow(country_name, id_str, i - 1, d[i], Head(party_cols))]
         \o Melt(d, country_name, id_str, Tail(party_cols))

InColumns(d, party) == d = <<>> \/ party \in DOMAIN d[1].vals

to_long_format_keeping_nulls(df_wide, country_name, id_str, party_cols) ==
    LET d == SelectSeq(df_wide, HasDate)
        present == SelectSeq(party_cols, LAMBDA c : InColumns(d, c) /\ c # "Lead")
    IN Melt(d, country_name, id_str, present)

to_long_format(df_wide, country_name, id_str, party_cols) ==
    LET d == SelectSeq(df_wide, HasDate)
        present == SelectSeq(party_cols, LAMBDA c : InColumns(d, c) /\ c # "Lead")
    IN SelectSeq(Melt(d, country_name, id_str, present), HasValue)

\* the indices of the rows of a country
GroupOf(d, id_str) == {i \in 1..Len(d) : d[i].id_str = id_str}

\* The last k rows of the rows G of d once d is sorted by date.  sort_values
\* does not say in which order rows of one date come out, so every choice
\* among the rows of the date the cut falls on is one tail.
Tails(d, G, k) ==
    IF Cardinality(G) <= k THEN {G}
    ELSE LET cut == CHOOSE c \in {d[i].date : i \in G} :
                        /\ Cardinality({i \in G : d[i].date > c}) < k
                        /\ Cardinality({i \in G : d[i].date >= c}) >= k
             above == {i \in G : d[i].date > cut}
             on == {i \in G : d[i].date = cut}
         IN {above \cup S : S \in {T \in SUBSET on : Cardinality(T) = k - Cardinality(above)}}

RECURSIVE SumValues(_, _)
SumValues(d, S) ==
    IF S = {} THEN 0
    ELSE LET i == CHOOSE j \in S : TRUE
         IN Get(d[i].value) + SumValues(d, S \ {i})

RowsOfParty(d, S, p) == {i \in S : d[i].party = p}
PartiesIn(d, S) == {d[i].party : i \in S}

\* mean over S1 >= mean over S2 (both non-empty)
MeanGE(d, S1, S2) ==
    SumValues(d, S1) * Cardinality(S2) >= SumValues(d, S2) * Cardinality(S1)

\* idxmax of avg_value over the rows W: the first party, in sorted order, of highest mean
LeaderIn(d, W) ==
    CHOOSE p \in PartiesIn(d, W) :
        /\ \A q \in PartiesIn(d, W) : MeanGE(d, RowsOfParty(d, W, p), RowsOfParty(d, W, q))
        /\ \A q \in PartiesIn(d, W) :
              MeanGE(d, RowsOfParty(d, W, q), RowsOfParty(d, W, p)) => PartyRank(p) <= PartyRank(q)

IdsOf(d) == {d[i].id_str : i \in 1..Len(d)}

\* the frames compute_leading_by_country_long can return: id_str -> leading_party
compute_leading_by_country_long(d) ==
    {f \in [IdsOf(d) -> Range(SortedParties)] :
        \A id \in IdsOf(d) :
            \E W \in Tails(d, GroupOf(d, id), LeadWindow) : f[id] = LeaderIn(d, W)}

\* build_dashboard.main() is about to read the two cleaned CSVs
InitLead ==
    /\ country = "UK"
    /\ pc = "read"
    /\ err = ""
    /\ tbl = 0
    /\ first_tr = None
    /\ poll_tables = <<>>
    /\ ti = 0
    /\ ri = 0
    /\ visited = 0
    /\ tr = None
    /\ row_result = ""
    /\ header = None
    /\ n_header = None
    /\ date_idx = None
    /\ first_header_skipped = FALSE
    /\ all_rows = <<>>
    /\ filtered_rows = <<>>
    /\ file = None
    /\ df = NoFrame
    /\ clean_file = None
    /\ NoDashboard

idleVars == <<country, err, tbl, first_tr, poll_tables, ti, ri, visited, tr, row_result,
              header, n_header, date_idx, first_header_skipped, all_rows, filtered_rows,
              file, df, clean_file>>

\* pd.read_csv("Uk_polls_clean.csv"): one more poll in the frame
ReadUkPoll ==
    /\ pc = "read"
    /\ Len(uk_wide) < MaxPolls
    /\ \E c \in UkPollChoices :
          uk_wide' = Append(uk_wide, WidePoll(Some(LastDate(uk_wide) + c.step), Firm, c.vals))
    /\ UNCHANGED <<pc, it_wide, df_long, lead_df, polls, cells_df>>
    /\ UNCHANGED idleVars

\* pd.read_csv("Italy_polls_clean.csv"): one more poll in the frame
ReadItPoll ==
    /\ pc = "read"
    /\ Len(it_wide) < MaxOtherPolls
    /\ \E c \in ItPollChoices :
          it_wide' = Append(it_wide, WidePoll(Some(LastDate(it_wide) + c.step), Firm, c.vals))
    /\ UNCHANGED <<pc, uk_wide, df_long, lead_df, polls, cells_df>>
    /\ UNCHANGED idleVars

\* uk_long, it_long and their concat
BuildLong ==
    /\ pc = "read"
    /\ df_long' = to_long_format(uk_wide, "United Kingdom", "826", UK_PARTIES)
                  \o to_long_format(it_wide, "Italy", "380", IT_PARTIES)
    /\ pc' = "long"
    /\ UNCHANGED <<uk_wide, it_wide, lead_df, polls, cells_df>>
    /\ UNCHANGED idleVars

\* lead_df = compute_leading_by_country_long(df_long, color_map)
ComputeLeading ==
    /\ pc = "long"
    /\ lead_df' \in compute_leading_by_country_long(df_long)
    /\ pc' = "led"
    /\ UNCHANGED <<uk_wide, it_wide, df_long, polls, cells_df>>
    /\ UNCHANGED idleVars

NextLead ==
    \/ ReadUkPoll
    \/ ReadItPoll
    \/ BuildLong
    \/ ComputeLeading

SpecLead == InitLead /\ [][NextLead]_vars

(***************************************************************************)
(* Dashboard: build_wide_table_frames.  polls is the function's frame of   *)
(* the latest polls; of cells_df the model keeps the header row, the Date  *)
(* column and the party columns (the Lead, Pollster and Sample columns and *)
(* the stripes of grid_df are built from the same rows of polls).          *)
(***************************************************************************)
top_polls == 10

\* the order of the id_str strings: "380" < "826"
IdRank(id_str) == IF id_str = "380" THEN 1 ELSE 2

\* color_map[party], and the colour of the other cells
ColorOf(party) == <<"color of", party>>
White == <<"white">>

\* dt.strftime("%d %b %Y") of a day
strftime(day) == <<"day">> \o StrOfInt(day)

\* groupby(["id_str", "Party"])["Value"].max(): Party -> maxv, for one country
maxv(d, id_str) ==
    [p \in PartiesIn(d, GroupOf(d, id_str)) |->
        SetMax({Get(d[i].value) : i \in RowsOfParty(d, GroupOf(d, id_str), p)})]

\* party_strength["col"]: 1 for the party of highest maximum; groupby gives the
\* parties in sorted order and the sort by maxv keeps that order among equals
party_rank(mx, party) ==
    1 + Cardinality({q \in DOMAIN mx :
            \/ mx[q] > mx[party]
            \/ mx[q] = mx[party] /\ PartyRank(q) < PartyRank(party)})

SamePoll(a, b) == a.id_str = b.id_str /\ a.poll_id = b.poll_id

\* drop_duplicates(subset=["id_str", "poll_id"]) from row i on: the first row of each poll
RECURSIVE drop_duplicates(_, _)
drop_duplicates(d, i) ==
    IF i > Len(d) THEN <<>>
    ELSE (IF \E j \in 1..(i - 1) : SamePoll(d[j], d[i]) THEN <<>> ELSE <<d[i]>>)
         \o drop_duplicates(d, i + 1)

SortsBeforeOldestFirst(a, b) ==
    \/ IdRank(a.id_str) < IdRank(b.id_str)
    \/ a.id_str = b.id_str /\ a.date < b.date

\* the order of sort_values(["id_str", "Date_conducted"], ascending=[True, False])
SortsBefore(a, b) ==
    \/ IdRank(a.id_str) < IdRank(b.id_str)
    \/ a.id_str = b.id_str /\ a.date > b.date

\* sort_values on two columns: a stable sort
RECURSIVE sort_values(_)
sort_values(s) ==
    IF s = <<>> THEN <<>>
    ELSE LET i == CHOOSE k \in 1..Len(s) :
                      /\ \A j \in 1..Len(s) : ~SortsBefore(s[j], s[k])
                      /\ \A j \in 1..(k - 1) : SortsBefore(s[k], s[j])
         IN <<s[i]>> \o sort_values(SubSeq(s, 1, i - 1) \o SubSeq(s, i + 1, Len(s)))

\* groupby("id_str").cumcount() for row i of s
cumcount(s, i) == Cardinality({j \in 1..(i - 1) : s[j].id_str = s[i].id_str})

\* winners: the rows of the poll sorted by Value, highest first (stable), then first()
max_party(d, p) ==
    LET G == {i \in 1..Len(d) : SamePoll(d[i], p)}
        i == CHOOSE k \in G :
                 /\ \A j \in G : Get(d[j].value) <= Get(d[k].value)
                 /\ \A j \in G : j < k => Get(d[j].value) < Get(d[k].value)
    IN d[i].party

\* the frame polls: one row per poll, newest first, the first top_polls of each country
latest_polls(d) ==
    LET s == sort_values(drop_duplicates(d, 1))
        numbered == [i \in 1..Len(s) |->
                        [id_str |-> s[i].id_str, poll_id |-> s[i].poll_id,
                         date |-> s[i].date, row |-> cumcount(s, i) + 1]]
        latest == SelectSeq(numbered, LAMBDA p : p.row <= top_polls)
    IN [i \in 1..Len(latest) |->
           [id_str |-> latest[i].id_str, poll_id |-> latest[i].poll_id,
            date |-> latest[i].date, row |-> latest[i].row,
            max_party |-> max_party(d, latest[i]),
            max_color |-> ColorOf(max_party(d, latest[i]))]]

WideCell(id_str, row, col, text, text_color, font_weight) ==
    [id_str |-> id_str, row |-> row, col |-> col, text |-> text,
     text_color |-> text_color, font_weight |-> font_weight]

\* the frame party_strength: the column of every party of every country
party_strength(d) ==
    [id \in IdsOf(d) |-> [p \in DOMAIN maxv(d, id) |-> party_rank(maxv(d, id), p)]]

\* header_rows: "Date" and the parties of the country, each in its column
header_rows(pl, ps) ==
    UNION { {WideCell(id, 0, 0, <<"Date">>, White, "bold")}
            \cup {WideCell(id, 0, ps[id][p], <<p>>, White, "bold") : p \in DOMAIN ps[id]} :
            id \in {pl[i].id_str : i \in 1..Len(pl)} }

\* meta_cells, column 0: strftime("%d %b %Y") of the day of the poll
date_cells(pl) ==
    {WideCell(pl[i].id_str, pl[i].row, 0, strftime(pl[i].date), White, "normal") :
        i \in 1..Len(pl)}

\* df_body: a cell for each row of df_long of a poll of the table; the cell of
\* max_party is bold and has its colour
party_cells(d, pl, ps) ==
    UNION { {WideCell(d[i].id_str, pl[j].row, ps[d[i].id_str][d[i].party],
                      StrOfInt(Get(d[i].value)),
                      IF d[i].party = pl[j].max_party THEN pl[j].max_color ELSE White,
                      IF d[i].party = pl[j].max_party THEN "bold" ELSE "normal") :
                j \in {k \in 1..Len(pl) : SamePoll(d[i], pl[k])}} :
            i \in 1..Len(d) }

build_wide_table_frames(d, pl) ==
    LET ps == party_strength(d)
    IN header_rows(pl, ps) \cup date_cells(pl) \cup party_cells(d, pl, ps)

\* the polls a cleaned CSV can hold next, in any order of their days
LatestPollChoices ==
    { [step |-> 2, vals |-> [Lab |-> Some(30), Con |-> Some(20)]],
      [step |-> -1, vals |-> [Lab |-> Some(10), Con |-> Some(90)]] }

\* the day of the poll read last; the first poll is read late enough for every
\* later one to fall on a day that is not negative
LatestDay(wide) == IF wide = <<>> THEN MaxWidePolls ELSE Get(wide[Len(wide)].date)

\* pd.read_csv("Uk_polls_clean.csv"): one more poll in the frame
ReadLatestPoll ==
    /\ pc = "read"
    /\ Len(uk_wide) < MaxWidePolls
    /\ \E c \in LatestPollChoices :
          uk_wide' = Append(uk_wide, WidePoll(Some(LatestDay(uk_wide) + c.step), Firm, c.vals))
    /\ UNCHANGED <<pc, it_wide, df_long, lead_df, polls, cells_df>>
    /\ UNCHANGED idleVars

\* cells_df, grid_df = build_wide_table_frames(df_long, color_map, top_polls=10)
BuildWideTable ==
    /\ pc = "long"
    /\ polls' = latest_polls(df_long)
    /\ cells_df' = build_wide_table_frames(df_long, polls')
    /\ pc' = "tabled"
    /\ UNCHANGED <<uk_wide, it_wide, df_long, lead_df>>
    /\ UNCHANGED idleVars

NextWide ==
    \/ ReadLatestPoll
    \/ ReadItPoll
    \/ BuildLong
    \/ BuildWideTable

SpecWide == InitLead /\ [][NextWide]_vars

(***************************************************************************)
(* Dashboard: to_long_format on the cells of a cleaned CSV.  The date      *)
(* cells are texts as to_csv writes them, or other texts, or empty; the    *)
(* value cells are texts.  pd.to_datetime and pd.to_numeric work cell by   *)
(* cell, so a poll enters the frame with its cells coerced.                *)
(***************************************************************************)
\* pd.to_datetime(errors="coerce") of a cell: YYYY-MM-DD of a day that exists, else NaT
to_datetime(cell) ==
    IF /\ Len(cell) = 10
       /\ cell[5] = "-"
       /\ cell[8] = "-"
       /\ \A i \in {1, 2, 3, 4, 6, 7, 9, 10} : cell[i] \in Range(AsciiDigits)
    THEN LET y == IntOf(SubSeq(cell, 1, 4))
             m == IntOf(SubSeq(cell, 6, 7))
             d == IntOf(SubSeq(cell, 9, 10))
         IN IF m \in 1..12 /\ d >= 1 /\ d <= DaysInMonth(y, m)
            THEN Some([y |-> y, m |-> m, d |-> d])
            ELSE None
    ELSE None

\* pd.to_numeric(errors="coerce") of a cell, NaN for an empty one
to_numeric(cell) == IF cell = <<>> THEN None ELSE ParseFloat(Strip(cell))

IsoDec11 == <<"2", "0", "2", "5", "-", "1", "2", "-", "1", "1">>
IsoDec09 == <<"2", "0", "2", "5", "-", "1", "2", "-", "0", "9">>
IsoNoDay == <<"2", "0", "2", "5", "-", "0", "2", "-", "3", "0">>
NumThirty == <<"3", "0">>
NumTwenty == <<"2", "0">>
NumTen == <<"1", "0">>
NotANumber == <<"n", "/", "a">>

\* the rows a cleaned CSV can hold: Date_conducted and the columns Lab, Con, Lead
CleanCsvRows ==
    { [date |-> IsoDec11, vals |-> [Lab |-> NumThirty, Con |-> NumTwenty, Lead |-> NumTen]],
      [date |-> IsoDec09, vals |-> [Lab |-> NumThirty, Con |-> <<>>, Lead |-> NumTen]],
      [date |-> <<>>, vals |-> [Lab |-> NumThirty, Con |-> NumTwenty, Lead |-> NumTen]],
      [date |-> IsoNoDay, vals |-> [Lab |-> NumTwenty, Con |-> NumThirty, Lead |-> <<>>]],
      [date |-> IsoDec11, vals |-> [Lab |-> NotANumber, Con |-> NumTwenty, Lead |-> <<>>]] }

\* a party_cols argument that names a party, the Lead column and a column the
\* frame does not have
LONG_PARTIES == <<"Lab", "Con", "Lead", "SNP">>

\* pd.read_csv: one more poll in the frame
ReadCleanCsvRow ==
    /\ pc = "read"
    /\ Len(uk_wide) < MaxLongPolls
    /\ \E c \in CleanCsvRows :
          uk_wide' = Append(uk_wide,
                            WidePoll(to_datetime(c.date), Firm,
                                     [p \in DOMAIN c.vals |-> to_numeric(c.vals[p])]))
    /\ UNCHANGED <<pc, it_wide, df_long, lead_df, polls, cells_df>>
    /\ UNCHANGED idleVars

\* to_long_format(uk_wide, "United Kingdom", "826", party_cols)
ReshapeToLong ==
    /\ pc = "read"
    /\ df_long' = to_long_format(uk_wide, "United Kingdom", "826", LONG_PARTIES)
    /\ pc' = "long"
    /\ UNCHANGED <<uk_wide, it_wide, lead_df, polls, cells_df>>
    /\ UNCHANGED idleVars

NextLong ==
    \/ ReadCleanCsvRow
    \/ ReshapeToLong

SpecLong == InitLead /\ [][NextLong]_vars

(***************************************************************************)
(* Properties of the scrapers                                              *)
(***************************************************************************)
Markers(c) ==
    CASE c = "Austria" -> {FieldworkDate, Lead}
      [] c = "Germany" -> {Abs}
      [] c = "Italy" -> {PollingFirm, FieldworkDate, SampleSize}
      [] c = "Denmark" -> {}

HasAllMarkers(c, ft) ==
    /\ ~IsNone(ft)
    /\ \A m \in Markers(c) : Contains(m, Join(TextsOf(ThsOf(Get(ft)))))
    /\ c = "Denmark" => \E i \in 1..Len(Get(ft)) : Get(ft)[i].tag = "th"

\* C1: the table examined last is among the selected tables exactly when it has a
\* first row whose space-joined header-cell text contains every marker of the
\* source (Denmark: when it has a header cell); nothing else is ever selected.
TableSelectedIffAllMarkers ==
    (pc = "select" /\ tbl >= 1) =>
        /\ (tbl \in Range(poll_tables)) <=> HasAllMarkers(country, first_tr)
        /\ Range(poll_tables) \subseteq 1..tbl

\* Austria: the first table is selected, the second, which lacks 'Fieldwork date', is not
TableSelectedWitness ==
    /\ country = "Austria"
    /\ pc = "select"
    /\ poll_tables = <<1>>
    /\ tbl = 2
    /\ first_tr = Some(<<Th(Lead), Th(Party)>>)

YearsOf(rows) == {rows[i].year : i \in 1..Len(rows)}
\* the years with fewer than 5 distinct observed years above them
TopYears(rows) ==
    LET years == YearsOf(rows)
    IN {y \in years : Cardinality({z \in years : z > y}) < 5}

\* C2: the rows written are exactly the rows whose year is among the min(5, n)
\* largest of the n distinct years, in their order; with fewer than 5 distinct
\* years nothing is dropped.
YearWindowKeepsTopFive ==
    pc = "done" =>
        LET top == TopYears(all_rows)
            kept == SelectSeq(all_rows, LAMBDA r : r.year \in top)
            written == Get(file)
        IN
        /\ filtered_rows = kept
        /\ Cardinality(top) = Min(5, Cardinality(YearsOf(all_rows)))
        /\ Len(written) = 1 + Len(kept)
        /\ \A i \in 1..Len(kept) :
              /\ IntOf(written[i + 1][1]) = kept[i].year
              /\ Tail(written[i + 1]) = kept[i].cells
        /\ Cardinality(YearsOf(all_rows)) < 5 => filtered_rows = all_rows

\* six distinct years were observed and the rows of the oldest one are dropped
YearWindowWitness ==
    /\ pc = "done"
    /\ Cardinality(YearsOf(all_rows)) = 6
    /\ Len(filtered_rows) < Len(all_rows)
    /\ \A i \in 1..Len(filtered_rows) : filtered_rows[i].year > 2020

\* the cell texts the Row Normalizer is given for a row
RawCells(c, row) ==
    IF c \in {"Germany", "Italy"} THEN TextsOf(TdsOf(row)) ELSE TextsOf(row)

PaddedOrTruncated(raw, cells, n) ==
    /\ Len(cells) = n
    /\ \A i \in 1..n : cells[i] = IF i <= Len(raw) THEN raw[i] ELSE <<>>

\* C3: every buffered row has exactly len(header) cells, the row appended last
\* is its source row padded on the right with "" or truncated, and every record
\* of the file written has as many fields as the header record.
RowsMatchHeaderLength ==
    /\ all_rows # <<>> =>
          /\ ~IsNone(header)
          /\ n_header = Some(Len(Get(header)))
          /\ \A i \in 1..Len(all_rows) : Len(all_rows[i].cells) = Len(Get(header))
    /\ row_result = "append" =>
          PaddedOrTruncated(RawCells(country, Get(tr)),
                            all_rows[Len(all_rows)].cells, Len(Get(header)))
    /\ pc = "done" =>
          /\ Get(file)[1] = <<(<<"Year">>)>> \o Get(header)
          /\ \A k \in 1..Len(Get(file)) : Len(Get(file)[k]) = Len(Get(header)) + 1

\* a short row was padded and then a long row truncated
RowsMatchHeaderWitness ==
    /\ Len(all_rows) = 2
    /\ all_rows[1].cells[Len(Get(header))] = <<>>
    /\ row_result = "append"
    /\ Len(RawCells(country, Get(tr))) > Len(Get(header))

\* C4: after a successful fetch the run ends in a fatal error exactly when no
\* table was selected or no data row survived; otherwise it reaches the write.
FatalIffStructureMismatch ==
    /\ (pc = "aborted" /\ err # "SourceUnavailable") =>
          /\ err \in {"NoTablesFound", "NoDataRows"}
          /\ poll_tables = <<>> \/ all_rows = <<>>
    /\ pc = "done" => (poll_tables # <<>> /\ all_rows # <<>>)

\* C5: a step that does not end in the completed write leaves the file as it was
\* (absent, or with its old content); only the write after all checks changes it.
NoPartialOutput == [][pc' # "done" => file' = file]_vars

\* the run aborted for lack of data rows and the old file is still there
NoPartialOutputWitness ==
    /\ pc = "aborted"
    /\ err = "NoDataRows"
    /\ file = Some(OldCsv)

\* C6: no row of a selected table makes the loop body raise.
RowNeverRaises == row_result # "raise"

\* C16: the file written is the record 'Year' + header followed by one record per
\* retained row, in extraction order, each the year and then the cells of the row;
\* every record has len(header) + 1 fields.
RawCsvShape ==
    pc = "done" =>
        LET recs == Get(file)
            kept == SelectSeq(all_rows, LAMBDA r : r.year \in TopYears(all_rows))
        IN
        /\ recs[1] = <<(<<"Year">>)>> \o Get(header)
        /\ Len(recs) = 1 + Len(kept)
        /\ \A i \in 1..Len(kept) : recs[i + 1] = <<StrOfInt(kept[i].year)>> \o kept[i].cells
        /\ \A i \in 1..Len(recs) : Len(recs[i]) = Len(Get(header)) + 1

\* rows of two tables were written
RawCsvShapeWitness ==
    /\ pc = "done"
    /\ Len(Get(file)) >= 3
    /\ ti >= 3
    /\ Len(Get(header)) >= 2

\* C17: when the row loop is over, every selected table has had its rows visited,
\* whatever its position among the selected tables.
EverySelectedTableVisited ==
    (pc = "done" \/ (pc = "aborted" /\ err = "NoDataRows")) => ti > Len(poll_tables)

\* the visible text of the date column of a row, the whole row text where the
\* header names no date column
DateColumnText(h, cells_text) ==
    LET d == HeaderIndex(h, FieldworkDate)
    IN IF IsNone(d) THEN Join(cells_text)
       ELSE IF Get(d) < Len(cells_text) THEN cells_text[Get(d) + 1]
       ELSE <<>>

\* the first success of: sort attribute, sort key, (19|20)dd in the date column
ChainYear(row, h) ==
    LET el == FirstSortValueCell(row)
        y1 == IF IsNone(el) THEN None ELSE YearRegex(Get(Get(el).sort))
        sk == FirstSortKeyCell(row)
        y2 == IF IsNone(sk) THEN None ELSE YearRegex(Get(Get(sk).sortkey))
        y3 == YearRegex(DateColumnText(h, TextsOf(row)))
    IN IF ~IsNone(y1) THEN y1 ELSE IF ~IsNone(y2) THEN y2 ELSE y3

\* C18: in the Denmark scraper the year of a data row is the first success of the
\* sort attribute, the sort key and the year in the date column text, in this order;
\* the row is skipped only if all three fail.
DenmarkYearIsFirstSuccess ==
    (/\ country = "Denmark"
     /\ ~IsNone(tr)
     /\ ~IsNone(header)
     /\ ThsOf(Get(tr)) = <<>>
     /\ TdsOf(Get(tr)) # <<>>) =>
        LET y == ChainYear(Get(tr), Get(header))
        IN IF IsNone(y) THEN row_result = "skip"
           ELSE /\ row_result = "append"
                /\ all_rows[Len(all_rows)].year = Get(y)

\* the cells of a row whose data-sort-value starts with four digits
DatedCells(row) ==
    {i \in 1..Len(row) :
        /\ HasSortValue(row[i])
        /\ Len(Get(row[i].sort)) >= 4
        /\ IsDecimalStr(SubSeq(Get(row[i].sort), 1, 4))}

\* C19: in the Germany and Italy scrapers a data row of which any cell carries a
\* data-sort-value starting with four digits is retained, with these digits as year.
AnyDatedCellRetainsRow ==
    (/\ country \in {"Germany", "Italy"}
     /\ ~IsNone(tr)
     /\ ThsOf(Get(tr)) = <<>>
     /\ DatedCells(Get(tr)) # {}) =>
        /\ row_result = "append"
        /\ \E i \in DatedCells(Get(tr)) :
              all_rows[Len(all_rows)].year = IntOf(SubSeq(Get(Get(tr)[i].sort), 1, 4))

\* C20: every year in all_rows is an integer of four digits.
YearsHaveFourDigits ==
    \A i \in 1..Len(all_rows) : all_rows[i].year >= 1000 /\ all_rows[i].year <= 9999

\* C21: in every scraper header and n_header, once assigned, are changed by no later
\* row and no later table; the header record of the CSV is that first assignment,
\* and every buffered row has the length of that header.
HeaderIsImmutable ==
    [][/\ ~IsNone(header) => (header' = header /\ n_header' = n_header)
       /\ ~IsNone(header') => n_header' = Some(Len(Get(header')))
       /\ all_rows' # <<>> =>
             /\ ~IsNone(n_header')
             /\ \A i \in 1..Len(all_rows') : Len(all_rows'[i].cells) = Get(n_header')
       /\ pc' = "done" => Get(file')[1] = <<Year>> \o Get(header')]_vars

\* with rows buffered, a later table shows other header cells and header stays
HeaderIsImmutableWitness ==
    /\ ti >= 2
    /\ all_rows # <<>>
    /\ ~IsNone(header)
    /\ ~IsNone(tr)
    /\ ThsOf(Get(tr)) # <<>>
    /\ TextsOf(ThsOf(Get(tr))) # Get(header)
    /\ Len(ThsOf(Get(tr))) # Get(n_header)

(***************************************************************************)
(* Properties of the cleaners                                              *)
(***************************************************************************)
\* the raw record a row of the frame was made from
RawOf(r) == Get(file)[r.idx + 1]
RawDateOf(r) == Field(Get(file)[1], RawOf(r), DateCol(country))
RawYearOf(r) == Field(Get(file)[1], RawOf(r), Year)
RawPartyOf(r) == Field(Get(file)[1], RawOf(r), PartyCol(country))

\* C7: no cleaner run is aborted by a date text that cannot be turned into a date;
\* the run completes and the cleaned CSV is written, with a null date for that row.
ParseFailuresNeverAbort ==
    /\ ~(pc = "clean_aborted" /\ err = "ValueError")
    /\ pc = "cleaned" =>
          /\ clean_file # None
          /\ \A i \in 1..Len(df.rows) :
                LET r == df.rows[i]
                IN IsNone(ParseDate(ExtractDayMonth(RawDateOf(r)) \o <<" ">> \o RawYearOf(r)))
                      => r.date = None

\* the number a cell stands for: separators, percent signs and dashes removed,
\* trimmed, parsed as a float (in hundredths); null when nothing parsable is left
ExpectedNumber(cell) ==
    CASE cell = NumPercent -> Some(1230)
      [] cell = NumThousands -> Some(123400)
      [] cell = NumDash -> None
      [] OTHER -> ParseFloat(Strip(RemoveChars(cell, {",", "%", "U+2013", "U+2212"})))

\* C8: in every cleaner a cell of a numeric column becomes the float it stands for
\* ('12.3%' 12.3, '1,234' 1234, a lone dash null), and the run is not aborted by it.
NumericCoercionInEveryCleaner ==
    /\ ~(pc = "clean_aborted" /\ err = "TypeError")
    /\ pc = "cleaned" /\ PartyCol(country) \in df.cols =>
          \A i \in 1..Len(df.rows) :
              df.rows[i].party = ExpectedNumber(RawPartyOf(df.rows[i]))

\* C9: in every cleaner the conducted date of a row is its last 'day month' token
\* with its Year, parsed as day-month-year ('9-11 Dec' with 2025 is 2025-12-11),
\* and null when the text has no such token.
DateIsLastTokenWithYear ==
    pc = "cleaned" =>
        \A i \in 1..Len(df.rows) :
            LET r == df.rows[i]
            IN /\ r.date = ParseDate(ExtractDayMonth(RawDateOf(r)) \o <<" ">> \o RawYearOf(r))
               /\ RawDateOf(r) = DateRange => r.date = Some([y |-> 2025, m |-> 12, d |-> 11])
               /\ ExtractDayMonth(RawDateOf(r)) = <<>> => r.date = None

\* C10: in every cleaner no record of the cleaned CSV has a null Sample_size.
NoRecordWithoutSampleSize ==
    pc = "cleaned" =>
        \A i \in 1..Len(Get(clean_file).rows) : ~IsNone(Get(clean_file).rows[i].sample)

RawSampleOf(r) == Field(Get(file)[1], RawOf(r), SampleSize)
RawFirmOf(r) == Field(Get(file)[1], RawOf(r), FirmCol(country))

\* C11: in every cleaner a non-null Sample_size of the cleaned CSV is a whole number,
\* the parsed sample size rounded to the nearest integer.
SampleSizeIsRoundedInteger ==
    pc = "cleaned" /\ <<"Sample_size">> \in df.cols =>
        \A i \in 1..Len(Get(clean_file).rows) :
            LET r == Get(clean_file).rows[i]
            IN ~IsNone(r.sample) =>
                  /\ Get(r.sample) % 100 = 0
                  /\ r.sample = Some(RoundHalfEven(Get(ExpectedNumber(RawSampleOf(r)))))

\* the character the firm text is cut at
CitationMarker(c) == IF c = "Austria" THEN "(" ELSE "["

\* C12: in every cleaner Pollster is the firm text before the first marker of the
\* source, trimmed.
PollsterIsPrefixBeforeMarker ==
    pc = "cleaned" =>
        \A i \in 1..Len(Get(clean_file).rows) :
            LET r == Get(clean_file).rows[i]
            IN r.pollster = Strip(PrefixBefore(RawFirmOf(r), CitationMarker(country)))

\* C13: in every cleaner a numeric column missing from the raw CSV is passed over:
\* the run completes (no KeyError) and the columns that are there are coerced.
AbsentNumericColumnsSkipped ==
    /\ ~(pc = "clean_aborted" /\ err = "KeyError")
    /\ pc = "cleaned" /\ PartyCol(country) \notin df.cols =>
          \A i \in 1..Len(df.rows) : df.rows[i].party = None

PartyGroup(d, id, p) == {i \in GroupOf(d, id) : d[i].party = p}

\* p has the highest mean when every party's mean is taken over its own
\* LeadWindow most recent rows
LeadsOverOwnWindows(d, id, p) ==
    /\ PartyGroup(d, id, p) # {}
    /\ \E W \in Tails(d, PartyGroup(d, id, p), LeadWindow) :
          \A q \in PartiesIn(d, GroupOf(d, id)) :
              \E V \in Tails(d, PartyGroup(d, id, q), LeadWindow) : MeanGE(d, W, V)

\* C14: the leading party of each country is a party of highest mean Value, each
\* party's mean being taken over its own 10 most recent polls.
LeaderHasHighestRecentMean ==
    pc = "led" =>
        \A id \in DOMAIN lead_df : LeadsOverOwnWindows(df_long, id, lead_df[id])

\* the polls of a country in the long frame
PollsOf(d, id_str) == {[poll_id |-> d[i].poll_id, date |-> d[i].date] : i \in GroupOf(d, id_str)}

\* the rows of polls that make the table body of a country
BodyOf(id_str) == {i \in 1..Len(polls) : polls[i].id_str = id_str}

\* the party cells of a body row that are bold
BoldCells(id_str, row) ==
    {c \in cells_df : /\ c.id_str = id_str
                      /\ c.row = row
                      /\ c.col >= 1
                      /\ c.font_weight = "bold"}

\* the party a column of the table is headed with
PartyOfColumn(id_str, col) ==
    (CHOOSE c \in cells_df : c.id_str = id_str /\ c.row = 0 /\ c.col = col).text[1]

\* the Value of a party in a poll is the highest Value of the poll
IsMaxOfPoll(d, id_str, poll_id, party) ==
    LET G == {i \in GroupOf(d, id_str) : d[i].poll_id = poll_id}
    IN \E i \in G : /\ d[i].party = party
                    /\ \A j \in G : Get(d[j].value) <= Get(d[i].value)

\* C22: for each country the table body holds at most top_polls (10) polls; they
\* are the polls of most recent Date_conducted, numbered 1..k from the newest on;
\* in each row the bold, coloured party cell is that of a party of highest Value
\* among the parties of the poll.
LatestPollsTable ==
    pc = "tabled" =>
        \A id \in IdsOf(df_long) :
            LET all == PollsOf(df_long, id)
                body == BodyOf(id)
                k == Min(Cardinality(all), top_polls)
                shown == {[poll_id |-> polls[i].poll_id, date |-> polls[i].date] : i \in body}
            IN /\ Cardinality(body) = k
               /\ {polls[i].row : i \in body} = 1..k
               /\ shown \subseteq all
               /\ Cardinality(shown) = k
               /\ \A p \in shown : \A q \in all \ shown : q.date <= p.date
               /\ \A i \in body : \A j \in body :
                     polls[i].row < polls[j].row => polls[i].date >= polls[j].date
               /\ \A i \in body :
                     /\ BoldCells(id, polls[i].row) # {}
                     /\ \A c \in BoldCells(id, polls[i].row) :
                           /\ c.text_color = ColorOf(PartyOfColumn(id, c.col))
                           /\ IsMaxOfPoll(df_long, id, polls[i].poll_id,
                                          PartyOfColumn(id, c.col))

\* more polls than the table holds, read in another order than by day, with
\* different parties ahead, and a second country
LatestPollsTableWitness ==
    /\ pc = "tabled"
    /\ Cardinality(PollsOf(df_long, "826")) > top_polls
    /\ PollsOf(df_long, "380") # {}
    /\ \E i \in BodyOf("826") : \E j \in BodyOf("826") :
          /\ polls[i].row < polls[j].row
          /\ polls[i].poll_id < polls[j].poll_id
          /\ polls[i].max_party # polls[j].max_party
    /\ \E i \in BodyOf("826") : \E j \in BodyOf("826") :
          /\ polls[i].row < polls[j].row
          /\ polls[i].poll_id > polls[j].poll_id

\* the two ends of a fieldwork text written 'd1 Mon1 Y1 - d2 Mon2 Y2' (en dash)
RangeStart(s) == Strip(PrefixBefore(s, "U+2013"))
RangeEnd(s) == Strip(SubSeq(s, Len(PrefixBefore(s, "U+2013")) + 2, Len(s)))
HasYearAtEachEnd(s) ==
    /\ PrefixBefore(s, "U+2013") # s
    /\ ~IsNone(ParseDate(RangeStart(s)))
    /\ ~IsNone(ParseDate(RangeEnd(s)))

\* C23: Austria, scraper then cleaner: for a row whose fieldwork text is a range
\* with a year at each end, also one that crosses a year boundary, Date_conducted
\* is the end date of the range, d2 Mon2 Y2.
DateIsEndOfFieldwork ==
    (country = "Austria" /\ pc = "cleaned") =>
        \A i \in 1..Len(df.rows) :
            HasYearAtEachEnd(RawDateOf(df.rows[i])) =>
                df.rows[i].date = ParseDate(RangeEnd(RawDateOf(df.rows[i])))

\* the polls of the wide frame that have a date, and the parties asked for that
\* are columns of the frame
DatedPolls == {i \in 1..Len(uk_wide) : ~IsNone(uk_wide[i].date)}
PartiesAsked ==
    {p \in Range(LONG_PARTIES) : p # "Lead" /\ \A i \in 1..Len(uk_wide) : p \in DOMAIN uk_wide[i].vals}

\* the rows of the long frame of poll_id n and party p
LongRows(n, p) == {k \in 1..Len(df_long) : df_long[k].poll_id = n /\ df_long[k].party = p}

\* C24: the long frame has exactly one row per (poll, party) of which the poll
\* has a date and the party a number; no row is without date or Value, 'Lead' is
\* never a Party, and different polls have different poll_ids.
LongHasOneRowPerPollAndParty ==
    pc = "long" =>
        /\ \A k \in 1..Len(df_long) :
              /\ ~IsNone(df_long[k].value)
              /\ df_long[k].party # "Lead"
              /\ df_long[k].id_str = "826"
        /\ \E f \in [DatedPolls -> 0..Len(uk_wide)] :
              /\ \A i \in DatedPolls : \A j \in DatedPolls : f[i] = f[j] => i = j
              /\ \A k \in 1..Len(df_long) :
                    \E i \in DatedPolls :
                       /\ df_long[k].poll_id = f[i]
                       /\ df_long[k].party \in PartiesAsked
                       /\ df_long[k].date = Get(uk_wide[i].date)
                       /\ df_long[k].value = uk_wide[i].vals[df_long[k].party]
              /\ \A i \in DatedPolls : \A p \in PartiesAsked :
                    Cardinality(LongRows(f[i], p)) =
                       (IF IsNone(uk_wide[i].vals[p]) THEN 0 ELSE 1)

\* a poll without a date, a dated poll with a party without a number, and polls
\* with a number in the Lead column
LongWitness ==
    /\ pc = "long"
    /\ \E i \in 1..Len(uk_wide) : IsNone(uk_wide[i].date) /\ ~IsNone(uk_wide[i].vals["Lab"])
    /\ \E i \in DatedPolls : \E p \in PartiesAsked : IsNone(uk_wide[i].vals[p])
    /\ \E i \in DatedPolls : ~IsNone(uk_wide[i].vals["Lead"])
    /\ Len(df_long) >= 2

\* what a step of an Austria, Germany or Italy run does to the header
HeaderFromPageStep ==
    /\ (IsNone(header) /\ ~IsNone(header')) =>
          /\ ti = 1
          /\ ri = 0
          /\ ThsOf(Get(tr')) # <<>>
          /\ header' = Some(TextsOf(ThsOf(Get(tr'))))
          /\ n_header' = Some(Len(ThsOf(Get(tr'))))
    /\ visited' >= 1 => (~IsNone(header') /\ ~IsNone(n_header'))
    /\ all_rows' # all_rows => ~IsNone(n_header')
    /\ err' # "TypeError"
    /\ ~IsNone(header') => Get(header') # ColNames(Len(Get(header')))
    /\ pc' = "done" => Get(file')[1] = <<Year>> \o Get(header')

\* C25: in the Austria, Germany and Italy scrapers header is set from the th cells
\* of the first row of the first selected table, before any row is normalized:
\* n_header is defined at every normalization and the 'col_i' header is never
\* written.
HeaderComesFromPage ==
    [][(country \in {"Austria", "Germany", "Italy"}) => HeaderFromPageStep]_vars

\* rows were normalized and written under a header read from the page
HeaderComesFromPageWitness ==
    /\ country \in {"Austria", "Germany", "Italy"}
    /\ pc = "done"
    /\ Len(Get(file)) >= 2
    /\ ~IsNone(header)
    /\ Get(file)[1] = <<Year>> \o Get(header)
    /\ \E i \in 1..Len(all_rows) : Len(all_rows[i].cells) = Get(n_header)

\* the text is a minus sign, ASCII or U+2212, followed by ASCII digits
DenotesNegative(cell) ==
    /\ Len(cell) >= 2
    /\ cell[1] \in {"-", "U+2212"}
    /\ \A i \in 2..Len(cell) : cell[i] \in Range(AsciiDigits)
\* the text is made of ASCII digits
DenotesPositive(cell) ==
    /\ cell # <<>>
    /\ \A i \in 1..Len(cell) : cell[i] \in Range(AsciiDigits)

\* C26: in every cleaner a numeric cell that is a minus sign ('-' or U+2212) and
\* digits becomes that negative number; only cells without a digit become null,
\* and no cell becomes a number of the opposite sign.
SignIsPreserved ==
    (pc = "cleaned" /\ PartyCol(country) \in df.cols) =>
        \A i \in 1..Len(df.rows) :
            LET cell == RawPartyOf(df.rows[i])
                v == df.rows[i].party
            IN /\ DenotesNegative(cell) => v = Some(0 - 100 * IntOf(Tail(cell)))
               /\ DenotesPositive(cell) => v = Some(100 * IntOf(cell))
               /\ IsNone(v) => \A k \in 1..Len(cell) : cell[k] \notin Range(AsciiDigits)

====
